---- MODULE Spec2Model ----
(***************************************************************************)
(* Edwards-curve group operations of curve25519-dalek (src/edwards.rs)     *)
(* over the fiat field backend (src/backend/serial/fiat_rust/field.rs).    *)
(*                                                                         *)
(* The field is instantiated at a scale a model checker can enumerate:     *)
(* p = 2^6 - 3 = 61 stands for p = 2^255 - 19.  Both are primes of the     *)
(* form 2^n - c with p = 5 (mod 8), so -1 is a square, the square-root     *)
(* algorithm of sqrt_ratio_i applies unchanged, and the curve              *)
(* -x^2 + y^2 = 1 + d x^2 y^2 with d = 35 (a non-square) has 8 * 7 points: *)
(* cofactor 8 and a prime-order subgroup (l = 7) generated by the point    *)
(* with y = 4/5, exactly the shape of Ed25519.  A 32-byte string is the    *)
(* little-endian integer it encodes, here 7 bits wide: bits 0..5 are the   *)
(* y field (bits 0..254) and bit 6 is the sign bit (bit 255).              *)
(*                                                                         *)
(* A FieldElement51 is represented by the integer its limbs encode,        *)
(* sum l_i 2^(51 i), which need not be below p: from_bytes does not        *)
(* reduce, the carry pass only folds the bits above 2^n, and only          *)
(* to_bytes produces the canonical representative.                         *)
(***************************************************************************)
EXTENDS Integers, Sequences, FiniteSets, TLC

\* ------------------------------------------------------------------------
\* Field parameters
\* ------------------------------------------------------------------------

\* number of bits of a packed field element (255 in the source)
FieldBits == 6

\* p = 2^FieldBits - FieldC (19 in the source)
FieldC == 3

TwoToBits == 2 ^ FieldBits

\* the field prime
P == TwoToBits - FieldC

\* all byte strings: FieldBits bits of y and one sign bit on top
ByteStrings == 0 .. (2 * TwoToBits - 1)

\* F applied to the value of e.  The application is written over the
\* singleton set {e} so that e is computed once, before F starts: the loops
\* below thread their accumulators through it.
Bind(e, F(_)) == CHOOSE r \in {F(x) : x \in {e}} : TRUE

\* ------------------------------------------------------------------------
\* fiat primitives, by the integer the limbs encode
\* ------------------------------------------------------------------------

\* one carry pass: the bits above 2^FieldBits wrap around times FieldC
fiat_25519_carry(a) == (a % TwoToBits) + FieldC * (a \div TwoToBits)

\* limb-wise addition, no carry
fiat_25519_add(a, b) == a + b

\* limb-wise a + 2p - b, no carry
fiat_25519_sub(a, b) == (a + 2 * P) - b

\* limb-wise 2p - a, no carry
fiat_25519_opp(a) == (2 * P) - a

\* the carry chain that ends a multiplication: passes until all limbs fit
RECURSIVE CarryChain(_)
CarryChain(t) == IF t < TwoToBits THEN t ELSE CarryChain(fiat_25519_carry(t))

fiat_25519_carry_mul(a, b) == CarryChain(a * b)

fiat_25519_carry_square(a) == CarryChain(a * a)

\* constant-time select: arg2 when the bit is 0, arg3 when it is 1
fiat_25519_selectznz(c, a, b) == IF c = 0 THEN a ELSE b

\* unpack the bytes into limbs: the limbs encode the integer of the bytes, with
\* no reduction and no masking
fiat_25519_from_bytes(b) == b

\* full reduction to [0, p) and packing; the top bit is 0
fiat_25519_to_bytes(a) == a % P

\* ------------------------------------------------------------------------
\* FieldElement51 (field.rs)
\* ------------------------------------------------------------------------

fe_add(a, b) == fiat_25519_carry(fiat_25519_add(a, b))

fe_sub(a, b) == fiat_25519_carry(fiat_25519_sub(a, b))

fe_mul(a, b) == fiat_25519_carry_mul(a, b)

fe_neg(a) == fiat_25519_carry(fiat_25519_opp(a))

fe_conditional_select(a, b, choice) == fiat_25519_selectznz(choice, a, b)

\* the limbs of a field element, least significant first: two limbs of
\* FieldBits / 2 bits stand for the five limbs of 51 bits, and the top limb holds
\* whatever exceeds 2^FieldBits
LimbBase == 2 ^ (FieldBits \div 2)

limbs(a) == <<a % LimbBase, a \div LimbBase>>

from_limbs(l) == l[1] + LimbBase * l[2]

\* a u64 is 13 bits wider than a limb, as 64 is than 51
WordModulus == LimbBase * (2 ^ 13)

\* the value a u64 keeps of an exact result
u64(x) == x % WordModulus

\* the limbs of 2p: 2 (2^51 - 19), then 2 (2^51 - 1)
two_p == <<2 * (LimbBase - FieldC), 2 * (LimbBase - 1)>>

\* the exact values of the limb-wise sum a + b
fiat_25519_add_limbs(a, b) == <<a[1] + b[1], a[2] + b[2]>>

\* the exact values of the limb-wise difference a + 2p - b
fiat_25519_sub_limbs(a, b) == <<(two_p[1] + a[1]) - b[1], (two_p[2] + a[2]) - b[2]>>

\* the exact values of the limb-wise 2p - a
fiat_25519_opp_limbs(a) == <<two_p[1] - a[1], two_p[2] - a[2]>>

\* one carry pass over the limbs: limb 0 carries into the top limb, the top
\* limb carries times FieldC into limb 0, and limb 0 carries once more; wide
\* holds the exact values of the sums on the way
fiat_25519_carry_limbs(a) ==
    LET x2 == (a[1] \div LimbBase) + a[2]
        x6 == (a[1] % LimbBase) + FieldC * (u64(x2) \div LimbBase)
        x7 == (u64(x6) \div LimbBase) + (u64(x2) % LimbBase)
    IN  [out |-> <<u64(x6) % LimbBase, u64(x7)>>, wide |-> <<x2, x6, x7>>]

\* an addition that leaves the carry pass out
add_limbs_no_carry(a, b) ==
    LET d == fiat_25519_add_limbs(a, b)
    IN  [out |-> <<u64(d[1]), u64(d[2])>>, wide |-> d, products |-> <<>>]

\* Add::add on limbs: fiat_25519_add, then fiat_25519_carry
add_limbs(a, b) ==
    LET d == fiat_25519_add_limbs(a, b)
        c == fiat_25519_carry_limbs(<<u64(d[1]), u64(d[2])>>)
    IN  [out |-> c.out, wide |-> d \o c.wide, products |-> <<>>]

\* Mul::mul on limbs: the u128 sums of products fiat_25519_carry_mul forms, the
\* wrap of 2^FieldBits folded in as FieldC, and the limbs its carry chain returns
mul_limbs(a, b) ==
    [out |-> limbs(fiat_25519_carry_mul(from_limbs(a), from_limbs(b))),
     wide |-> <<>>,
     products |-> <<a[1] * b[1] + FieldC * (a[2] * b[2]), a[1] * b[2] + a[2] * b[1]>>]

\* square on limbs: fiat_25519_carry_square
square_limbs(a) ==
    [out |-> limbs(fiat_25519_carry_square(from_limbs(a))),
     wide |-> <<>>,
     products |-> <<a[1] * a[1] + FieldC * (a[2] * a[2]), 2 * (a[1] * a[2])>>]

\* square2 on limbs: fiat_25519_carry_square, fiat_25519_add of the square to
\* itself, fiat_25519_carry
square2_limbs(a) ==
    LET s == square_limbs(a)
        d == add_limbs(s.out, s.out)
    IN  [out |-> d.out, wide |-> d.wide, products |-> s.products]

\* pow2k on limbs: k squarings, with the products of all of them
RECURSIVE pow2k_limbs(_, _)
pow2k_limbs(a, k) ==
    LET s == square_limbs(a)
        rest(r) == [out |-> r.out, wide |-> <<>>, products |-> s.products \o r.products]
    IN  IF k - 1 = 0 THEN s ELSE Bind(pow2k_limbs(s.out, k - 1), rest)

\* a subtraction that leaves the carry pass out
sub_limbs_no_carry(a, b) ==
    LET d == fiat_25519_sub_limbs(a, b)
    IN  [out |-> <<u64(d[1]), u64(d[2])>>, wide |-> d]

\* Sub::sub on limbs: fiat_25519_sub, then fiat_25519_carry; wide holds the
\* exact value of every limb computed on the way
sub_limbs(a, b) ==
    LET d == fiat_25519_sub_limbs(a, b)
        c == fiat_25519_carry_limbs(<<u64(d[1]), u64(d[2])>>)
    IN  [out |-> c.out, wide |-> d \o c.wide]

\* a negation that leaves the carry pass out
neg_limbs_no_carry(a) ==
    LET d == fiat_25519_opp_limbs(a)
    IN  [out |-> <<u64(d[1]), u64(d[2])>>, wide |-> d]

\* Neg::neg on limbs: fiat_25519_opp, then fiat_25519_carry
neg_limbs(a) ==
    LET d == fiat_25519_opp_limbs(a)
        c == fiat_25519_carry_limbs(<<u64(d[1]), u64(d[2])>>)
    IN  [out |-> c.out, wide |-> d \o c.wide]

\* subtle: u64::conditional_swap and u64::conditional_assign
u64_conditional_swap(x, y, choice) == IF choice = 1 THEN <<y, x>> ELSE <<x, y>>

u64_conditional_assign(x, y, choice) == IF choice = 1 THEN y ELSE x

\* a swap of the lowest limb only
fe_conditional_swap_low_limb(a, b, choice) ==
    LET s0 == u64_conditional_swap(limbs(a)[1], limbs(b)[1], choice)
    IN  << from_limbs(<<s0[1], limbs(a)[2]>>), from_limbs(<<s0[2], limbs(b)[2]>>) >>

\* <<a, b>> after the limb-wise swap
fe_conditional_swap(a, b, choice) ==
    LET s0 == u64_conditional_swap(limbs(a)[1], limbs(b)[1], choice)
        s1 == u64_conditional_swap(limbs(a)[2], limbs(b)[2], choice)
    IN  << from_limbs(<<s0[1], s1[1]>>), from_limbs(<<s0[2], s1[2]>>) >>

\* self after the limb-wise assignment
fe_conditional_assign(self, other, choice) ==
    from_limbs(<< u64_conditional_assign(limbs(self)[1], limbs(other)[1], choice),
                  u64_conditional_assign(limbs(self)[2], limbs(other)[2], choice) >>)

zero == 0

one == 1

minus_one == P - 1

\* a from_bytes that leaves bit 255 in
from_bytes_unmasked(bytes) == fiat_25519_from_bytes(bytes)

\* temp[31] &= 127, then unpack
from_bytes(bytes) == fiat_25519_from_bytes(bytes % TwoToBits)

\* from_bytes on limbs: the limbs fiat_25519_from_bytes unpacks, nothing computed
from_bytes_limbs(bytes) == [out |-> limbs(from_bytes(bytes))]

\* a to_bytes that packs the low bits without the final reduction
to_bytes_unreduced(a) == a % TwoToBits

to_bytes(a) == fiat_25519_to_bytes(a)

\* a loop that tests k before it squares
RECURSIVE pow2k_loop_tests_first(_, _, _)
pow2k_loop_tests_first(output, k, done) ==
    IF k - 1 = 0 THEN [output |-> output, squarings |-> done]
    ELSE LET rest(squared) == pow2k_loop_tests_first(squared, k - 1, done + 1)
         IN  Bind(fiat_25519_carry_square(output), rest)

\* loop { square output; k -= 1; if k == 0 { return output } }: the output and
\* the number of squarings, done + those of this and the later rounds
RECURSIVE pow2k_loop(_, _, _)
pow2k_loop(output, k, done) ==
    LET rest(squared) == IF k - 1 = 0 THEN [output |-> squared, squarings |-> done + 1]
                         ELSE pow2k_loop(squared, k - 1, done + 1)
    IN  Bind(fiat_25519_carry_square(output), rest)

pow2k(a, k) == pow2k_loop(a, k, 0).output

square(a) == fiat_25519_carry_square(a)

square2(a) ==
    LET temp == fiat_25519_carry_square(a)
    IN  fiat_25519_carry(fiat_25519_add(temp, temp))

\* ------------------------------------------------------------------------
\* FieldElement (field.rs of the crate root): equality, sign, inversion,
\* square roots
\* ------------------------------------------------------------------------

\* field elements compare by their canonical encodings
fe_ct_eq(a, b) == IF to_bytes(a) = to_bytes(b) THEN 1 ELSE 0

is_negative(a) == to_bytes(a) % 2

conditional_negate(a, choice) == fe_conditional_select(a, fe_neg(a), choice)

\* a^e by square and multiply
RECURSIVE fe_pow(_, _)
fe_pow(a, e) ==
    IF e = 0 THEN one
    ELSE LET step(h) == IF e % 2 = 1 THEN fe_mul(square(h), a) ELSE square(h)
         IN  Bind(fe_pow(a, e \div 2), step)

\* a^(p-2): the inverse of a, and 0 for a = 0
invert(a) == fe_pow(a, P - 2)

\* a^((p-5)/8)
pow_p58(a) == fe_pow(a, (P - 5) \div 8)

\* the square root of -1: 2^((p-1)/4)
SQRT_M1 == fe_pow(2, (P - 1) \div 4)

\* <<choice, r>>: choice = 1 and r^2 = u/v when u/v is a square,
\* choice = 0 and r^2 = i*u/v otherwise; r is the non-negative root
sqrt_ratio_i(u, v) ==
    LET v3 == fe_mul(square(v), v)
        v7 == fe_mul(square(v3), v)
        r0 == fe_mul(fe_mul(u, v3), pow_p58(fe_mul(u, v7)))
        check == fe_mul(v, square(r0))
        correct_sign_sqrt == fe_ct_eq(check, u)
        flipped_sign_sqrt == fe_ct_eq(check, fe_neg(u))
        flipped_sign_sqrt_i == fe_ct_eq(check, fe_mul(fe_neg(u), SQRT_M1))
        r_prime == fe_mul(SQRT_M1, r0)
        flip == IF flipped_sign_sqrt = 1 \/ flipped_sign_sqrt_i = 1 THEN 1 ELSE 0
        r1 == fe_conditional_select(r0, r_prime, flip)
        r == conditional_negate(r1, is_negative(r1))
        was_nonzero_square ==
            IF correct_sign_sqrt = 1 \/ flipped_sign_sqrt = 1 THEN 1 ELSE 0
    IN  <<was_nonzero_square, r>>

\* ------------------------------------------------------------------------
\* Curve constants (constants.rs)
\* ------------------------------------------------------------------------

\* the curve constant d, a non-square
EDWARDS_D == 35

EDWARDS_D2 == fe_add(EDWARDS_D, EDWARDS_D)

\* the order of the basepoint
BASEPOINT_ORDER == 7

\* the basepoint: y = 4/5, x non-negative
ED25519_BASEPOINT_COMPRESSED == 13

\* ------------------------------------------------------------------------
\* Curve models (backend/serial/curve_models): the HWCD formulas
\* ------------------------------------------------------------------------

\* ProjectivePoint validity: (-X^2 + Y^2) Z^2 = Z^4 + d X^2 Y^2
projective_is_valid(p) ==
    LET XX == square(p.X)
        YY == square(p.Y)
        ZZ == square(p.Z)
        ZZZZ == square(ZZ)
        lhs == fe_mul(fe_sub(YY, XX), ZZ)
        rhs == fe_add(ZZZZ, fe_mul(EDWARDS_D, fe_mul(XX, YY)))
    IN  fe_ct_eq(lhs, rhs) = 1

\* CompletedPoint -> ProjectivePoint: (X T, Y Z, Z T)
completed_to_projective(c) ==
    [X |-> fe_mul(c.X, c.T), Y |-> fe_mul(c.Y, c.Z), Z |-> fe_mul(c.Z, c.T)]

\* CompletedPoint -> EdwardsPoint: (X T, Y Z, Z T, X Y)
completed_to_extended(c) ==
    [X |-> fe_mul(c.X, c.T), Y |-> fe_mul(c.Y, c.Z),
     Z |-> fe_mul(c.Z, c.T), T |-> fe_mul(c.X, c.Y)]

\* ProjectivePoint doubling, to a CompletedPoint ((X:Z), (Y:T)) = ((E:G), (H:F))
projective_double(p) ==
    LET A == square(p.X)
        B == square(p.Y)
        C == square2(p.Z)
        D == fe_neg(A)
        E == fe_sub(fe_sub(square(fe_add(p.X, p.Y)), A), B)
        G == fe_add(D, B)
        F == fe_sub(G, C)
        H == fe_sub(D, B)
    IN  [X |-> E, Y |-> H, Z |-> G, T |-> F]

\* EdwardsPoint + ProjectiveNielsPoint, to a CompletedPoint
add_projective_niels(p, n) ==
    LET A == fe_mul(fe_sub(p.Y, p.X), n.Y_minus_X)
        B == fe_mul(fe_add(p.Y, p.X), n.Y_plus_X)
        C == fe_mul(p.T, n.T2d)
        ZZ == fe_mul(p.Z, n.Z)
        D == fe_add(ZZ, ZZ)
    IN  [X |-> fe_sub(B, A), Y |-> fe_add(B, A), Z |-> fe_add(D, C), T |-> fe_sub(D, C)]

\* EdwardsPoint - ProjectiveNielsPoint: y+x and y-x swapped, C negated
sub_projective_niels(p, n) ==
    LET A == fe_mul(fe_sub(p.Y, p.X), n.Y_plus_X)
        B == fe_mul(fe_add(p.Y, p.X), n.Y_minus_X)
        C == fe_mul(p.T, n.T2d)
        ZZ == fe_mul(p.Z, n.Z)
        D == fe_add(ZZ, ZZ)
    IN  [X |-> fe_sub(B, A), Y |-> fe_add(B, A), Z |-> fe_sub(D, C), T |-> fe_add(D, C)]

\* EdwardsPoint + AffineNielsPoint (Z2 = 1), to a CompletedPoint
add_affine_niels(p, n) ==
    LET A == fe_mul(fe_sub(p.Y, p.X), n.y_minus_x)
        B == fe_mul(fe_add(p.Y, p.X), n.y_plus_x)
        C == fe_mul(p.T, n.xy2d)
        D == fe_add(p.Z, p.Z)
    IN  [X |-> fe_sub(B, A), Y |-> fe_add(B, A), Z |-> fe_add(D, C), T |-> fe_sub(D, C)]

projective_niels_identity == [Y_plus_X |-> one, Y_minus_X |-> one, Z |-> one, T2d |-> zero]

affine_niels_identity == [y_plus_x |-> one, y_minus_x |-> one, xy2d |-> zero]

\* negation of a Niels point: swap y+x and y-x, negate the 2d coordinate
projective_niels_neg(n) ==
    [Y_plus_X |-> n.Y_minus_X, Y_minus_X |-> n.Y_plus_X, Z |-> n.Z, T2d |-> fe_neg(n.T2d)]

affine_niels_neg(n) ==
    [y_plus_x |-> n.y_minus_x, y_minus_x |-> n.y_plus_x, xy2d |-> fe_neg(n.xy2d)]

\* ------------------------------------------------------------------------
\* EdwardsPoint (edwards.rs)
\* ------------------------------------------------------------------------

identity == [X |-> zero, Y |-> one, Z |-> one, T |-> zero]

compressed_identity == 1

is_valid(p) ==
    LET point_on_curve == projective_is_valid([X |-> p.X, Y |-> p.Y, Z |-> p.Z])
        on_segre_image == fe_ct_eq(fe_mul(p.X, p.Y), fe_mul(p.Z, p.T)) = 1
    IN  point_on_curve /\ on_segre_image

conditional_select(a, b, choice) ==
    [X |-> fe_conditional_select(a.X, b.X, choice),
     Y |-> fe_conditional_select(a.Y, b.Y, choice),
     Z |-> fe_conditional_select(a.Z, b.Z, choice),
     T |-> fe_conditional_select(a.T, b.T, choice)]

\* the Choice: 1 when the cross-multiplied coordinates agree
\* a ct_eq that compares the coordinates without cross-multiplying
ct_eq_on_coordinates(p, q) ==
    IF fe_ct_eq(p.X, q.X) = 1 /\ fe_ct_eq(p.Y, q.Y) = 1 THEN 1 ELSE 0

ct_eq(p, q) ==
    IF /\ fe_ct_eq(fe_mul(p.X, q.Z), fe_mul(q.X, p.Z)) = 1
       /\ fe_ct_eq(fe_mul(p.Y, q.Z), fe_mul(q.Y, p.Z)) = 1
    THEN 1 ELSE 0

\* an eq derived from the fields of the struct
eq_on_coordinates(p, q) == p = q

eq(p, q) == ct_eq(p, q) = 1

to_projective_niels(p) ==
    [Y_plus_X |-> fe_add(p.Y, p.X), Y_minus_X |-> fe_sub(p.Y, p.X),
     Z |-> p.Z, T2d |-> fe_mul(p.T, EDWARDS_D2)]

to_projective(p) == [X |-> p.X, Y |-> p.Y, Z |-> p.Z]

to_affine_niels(p) ==
    LET recip == invert(p.Z)
        x == fe_mul(p.X, recip)
        y == fe_mul(p.Y, recip)
        xy2d == fe_mul(fe_mul(x, y), EDWARDS_D2)
    IN  [y_plus_x |-> fe_add(y, x), y_minus_x |-> fe_sub(y, x), xy2d |-> xy2d]

\* the inverse ratio (Z-Y)/(Z+Y) in place of the u-coordinate
to_montgomery_inverted(p) ==
    LET U == fe_add(p.Z, p.Y)
        W == fe_sub(p.Z, p.Y)
        u == fe_mul(W, invert(U))
    IN  to_bytes(u)

\* the 32 bytes of the Montgomery u-coordinate (Z+Y)/(Z-Y)
to_montgomery(p) ==
    LET U == fe_add(p.Z, p.Y)
        W == fe_sub(p.Z, p.Y)
        u == fe_mul(U, invert(W))
    IN  to_bytes(u)

\* the CompressedEdwardsY: canonical y, sign of x in the top bit
\* a compress that takes the sign from X instead of x = X/Z
compress_sign_of_X(p) ==
    LET recip == invert(p.Z)
        y == fe_mul(p.Y, recip)
        s == to_bytes(y)
    IN  s + TwoToBits * is_negative(p.X)

\* a compress that never sets bit 255
compress_without_sign(p) ==
    LET recip == invert(p.Z)
        y == fe_mul(p.Y, recip)
    IN  to_bytes(y)

\* a compress that packs Y instead of y = Y/Z
compress_unnormalised_y(p) ==
    LET recip == invert(p.Z)
        x == fe_mul(p.X, recip)
        s == to_bytes(p.Y)
    IN  s + TwoToBits * is_negative(x)

compress(p) ==
    LET recip == invert(p.Z)
        x == fe_mul(p.X, recip)
        y == fe_mul(p.Y, recip)
        s == to_bytes(y)
    IN  s + TwoToBits * is_negative(x)

None == <<"None">>

Some(p) == <<"Some", p>>

is_some(o) == o[1] = "Some"

unwrap(o) == o[2]

\* a decompress that drops the early return on a non-square
decompress_unchecked(bytes) ==
    LET Y == from_bytes(bytes)
        Z == one
        YY == square(Y)
        u == fe_sub(YY, Z)
        v == fe_add(fe_mul(YY, EDWARDS_D), Z)
        sq == sqrt_ratio_i(u, v)
        X0 == sq[2]
        compressed_sign_bit == bytes \div TwoToBits
        current_sign_bit == is_negative(X0)
        X == conditional_negate(X0, (current_sign_bit + compressed_sign_bit) % 2)
    IN  Some([X |-> X, Y |-> Y, Z |-> Z, T |-> fe_mul(X, Y)])

\* a decompress that computes T before it fixes the sign of X
decompress_stale_T(bytes) ==
    LET Y == from_bytes(bytes)
        Z == one
        YY == square(Y)
        u == fe_sub(YY, Z)
        v == fe_add(fe_mul(YY, EDWARDS_D), Z)
        sq == sqrt_ratio_i(u, v)
        X0 == sq[2]
        compressed_sign_bit == bytes \div TwoToBits
        current_sign_bit == is_negative(X0)
        X == conditional_negate(X0, (current_sign_bit + compressed_sign_bit) % 2)
    IN  IF sq[1] # 1 THEN None
        ELSE Some([X |-> X, Y |-> Y, Z |-> Z, T |-> fe_mul(X0, Y)])

\* a decompress that never looks at bit 255
decompress_ignores_sign(bytes) ==
    LET Y == from_bytes(bytes)
        Z == one
        YY == square(Y)
        u == fe_sub(YY, Z)
        v == fe_add(fe_mul(YY, EDWARDS_D), Z)
        sq == sqrt_ratio_i(u, v)
        X == sq[2]
    IN  IF sq[1] # 1 THEN None
        ELSE Some([X |-> X, Y |-> Y, Z |-> Z, T |-> fe_mul(X, Y)])

\* Option<EdwardsPoint>: None when the y-coordinate is not on the curve
decompress(bytes) ==
    LET Y == from_bytes(bytes)
        Z == one
        YY == square(Y)
        u == fe_sub(YY, Z)
        v == fe_add(fe_mul(YY, EDWARDS_D), Z)
        sq == sqrt_ratio_i(u, v)
        is_valid_y_coord == sq[1]
        X0 == sq[2]
        compressed_sign_bit == bytes \div TwoToBits
        current_sign_bit == is_negative(X0)
        X == conditional_negate(X0, (current_sign_bit + compressed_sign_bit) % 2)
    IN  IF is_valid_y_coord # 1 THEN None
        ELSE Some([X |-> X, Y |-> Y, Z |-> Z, T |-> fe_mul(X, Y)])

double(p) == completed_to_extended(projective_double(to_projective(p)))

\* an add that takes the receiver for the right operand
add_to_itself(p, q) == completed_to_extended(add_projective_niels(p, to_projective_niels(p)))

add(p, q) == completed_to_extended(add_projective_niels(p, to_projective_niels(q)))

sub(p, q) == completed_to_extended(sub_projective_niels(p, to_projective_niels(q)))

\* a neg that leaves T as it was
neg_keeps_T(p) == [X |-> fe_neg(p.X), Y |-> p.Y, Z |-> p.Z, T |-> p.T]

neg(p) == [X |-> fe_neg(p.X), Y |-> p.Y, Z |-> p.Z, T |-> fe_neg(p.T)]

\* a sum that starts from the first item instead of the identity
RECURSIVE sum_from_first(_)
sum_from_first(items) ==
    IF items = <<>> THEN identity
    ELSE IF Len(items) = 1 THEN items[1]
    ELSE LET fold(acc) == add(acc, items[Len(items)])
         IN  Bind(sum_from_first(SubSeq(items, 1, Len(items) - 1)), fold)

\* Iterator::fold(identity, |acc, item| acc + item)
RECURSIVE sum(_)
sum(items) ==
    IF items = <<>> THEN identity
    ELSE LET fold(acc) == add(acc, items[Len(items)])
         IN  Bind(sum(SubSeq(items, 1, Len(items) - 1)), fold)

\* a loop that goes round once more than asked
RECURSIVE pow2_loop_once_more(_, _, _)
pow2_loop_once_more(s, n, done) ==
    IF n < 0 THEN [s |-> s, doublings |-> done]
    ELSE LET rest(r) == pow2_loop_once_more(completed_to_projective(r), n - 1, done + 1)
         IN  Bind(projective_double(s), rest)

\* for _ in 0..(k-1) { r = s.double(); s = r.to_projective(); }: the point s
\* after n more rounds, and the number of doublings done
RECURSIVE pow2_loop(_, _, _)
pow2_loop(s, n, done) ==
    IF n = 0 THEN [s |-> s, doublings |-> done]
    ELSE LET rest(r) == pow2_loop(completed_to_projective(r), n - 1, done + 1)
         IN  Bind(projective_double(s), rest)

\* the loop, then the last doubling, converted to extended coordinates
mul_by_pow_2_run(p, k) ==
    LET last(st) == [point |-> completed_to_extended(projective_double(st.s)),
                     doublings |-> st.doublings + 1]
    IN  Bind(pow2_loop(to_projective(p), k - 1, 0), last)

mul_by_pow_2(p, k) == mul_by_pow_2_run(p, k).point

\* multiplication by 4 in place of the cofactor 8
mul_by_four(p) == mul_by_pow_2(p, 2)

mul_by_cofactor(p) == mul_by_pow_2(p, 3)

is_identity(p) == ct_eq(p, identity) = 1

is_small_order(p) == Bind(mul_by_cofactor(p), is_identity)

\* ------------------------------------------------------------------------
\* Scalar (scalar.rs): radix-16 digits
\* ------------------------------------------------------------------------

\* number of radix-16 digits of a scalar (64 in the source)
NumDigits == 4

\* the carry out of digit i when the digits are recentred into [-8, 8)
RECURSIVE radix_16_carry(_, _)
radix_16_carry(s, i) ==
    IF i < 0 THEN 0
    ELSE (((s \div (16 ^ i)) % 16) + radix_16_carry(s, i - 1) + 8) \div 16

\* digits a_0 .. a_{n-1} (a sequence indexed from 1) with
\* -8 <= a_i < 8, -8 <= a_{n-1} <= 8 and s = sum a_i 16^i
to_radix_16(s) ==
    [k \in 1 .. NumDigits |->
        LET i == k - 1
            raw == ((s \div (16 ^ i)) % 16) + radix_16_carry(s, i - 1)
        IN  IF i = NumDigits - 1 THEN raw ELSE raw - 16 * radix_16_carry(s, i)]

\* ------------------------------------------------------------------------
\* LookupTable (window.rs): [P, 2P, .. 8P] and constant-time selection
\* ------------------------------------------------------------------------

RECURSIVE projective_niels_multiples(_, _, _)
projective_niels_multiples(p, points, n) ==
    IF n = 0 THEN points
    ELSE LET rest(next) == projective_niels_multiples(p, Append(points, next), n - 1)
         IN  Bind(to_projective_niels(completed_to_extended(
                      add_projective_niels(p, points[Len(points)]))), rest)

lookup_table_projective_niels(p) ==
    projective_niels_multiples(p, <<to_projective_niels(p)>>, 7)

RECURSIVE affine_niels_multiples(_, _, _)
affine_niels_multiples(p, points, n) ==
    IF n = 0 THEN points
    ELSE LET rest(next) == affine_niels_multiples(p, Append(points, next), n - 1)
         IN  Bind(to_affine_niels(completed_to_extended(
                      add_affine_niels(p, points[Len(points)]))), rest)

lookup_table_affine_niels(p) ==
    affine_niels_multiples(p, <<to_affine_niels(p)>>, 7)

\* t <- points[j] when |x| = j, for every j in 1..8 in turn
RECURSIVE select_scan(_, _, _, _)
select_scan(table, xabs, t, j) ==
    IF j > 8 THEN t
    ELSE select_scan(table, xabs, IF xabs = j THEN table[j] ELSE t, j + 1)

select_projective_niels(table, x) ==
    LET xabs == IF x < 0 THEN -x ELSE x
        t == select_scan(table, xabs, projective_niels_identity, 1)
    IN  IF x < 0 THEN projective_niels_neg(t) ELSE t

select_affine_niels(table, x) ==
    LET xabs == IF x < 0 THEN -x ELSE x
        t == select_scan(table, xabs, affine_niels_identity, 1)
    IN  IF x < 0 THEN affine_niels_neg(t) ELSE t

\* ------------------------------------------------------------------------
\* Variable-base scalar multiplication (scalar_mul/variable_base.rs)
\* ------------------------------------------------------------------------

\* Q <- 16 Q + table.select(a_i) for i from the top digit down to 0
RECURSIVE variable_base_loop(_, _, _, _)
variable_base_loop(table, digits, Q, i) ==
    IF i < 0 THEN Q
    ELSE LET addsel(Q16) == completed_to_extended(add_projective_niels(Q16,
                                select_projective_niels(table, digits[i + 1])))
             rest(Q1) == variable_base_loop(table, digits, Q1, i - 1)
         IN  Bind(Bind(mul_by_pow_2(Q, 4), addsel), rest)

variable_base_mul(point, scalar) ==
    LET run(table) == variable_base_loop(table, to_radix_16(scalar), identity, NumDigits - 1)
    IN  Bind(lookup_table_projective_niels(point), run)

\* Mul<&Scalar> for &EdwardsPoint
mul(point, scalar) == variable_base_mul(point, scalar)

\* Mul<&EdwardsPoint> for &Scalar
scalar_mul_point(scalar, point) == mul(point, scalar)

is_torsion_free(p) == Bind(mul(p, BASEPOINT_ORDER), is_identity)

\* ------------------------------------------------------------------------
\* EdwardsBasepointTable (edwards.rs)
\* ------------------------------------------------------------------------

\* number of lookup tables: one per pair of digits (32 in the source)
NumTables == NumDigits \div 2

RECURSIVE create_loop(_, _, _)
create_loop(table, p, i) ==
    IF i >= NumTables THEN table
    ELSE LET rest(t) ==
                 LET next(p1) == create_loop(Append(table, t), p1, i + 1)
                 IN  Bind(mul_by_pow_2(p, 8), next)
         IN  Bind(lookup_table_affine_niels(p), rest)

create(basepoint) == create_loop(<<>>, basepoint, 0)

\* a phase that skips the digits that are zero
RECURSIVE basepoint_mul_phase_skips_zero(_, _, _, _)
basepoint_mul_phase_skips_zero(tables, a, st, i) ==
    IF i >= NumDigits THEN st
    ELSE IF a[i + 1] = 0 THEN basepoint_mul_phase_skips_zero(tables, a, st, i + 2)
    ELSE LET rest(st1) == basepoint_mul_phase_skips_zero(tables, a, st1, i + 2)
         IN  Bind([P |-> completed_to_extended(add_affine_niels(st.P,
                             select_affine_niels(tables[(i \div 2) + 1], a[i + 1]))),
                   trace |-> Append(st.trace, <<"select_add", i, i \div 2>>)], rest)

\* a phase that takes every digit from i on
RECURSIVE basepoint_mul_phase_every_digit(_, _, _, _)
basepoint_mul_phase_every_digit(tables, a, st, i) ==
    IF i >= NumDigits THEN st
    ELSE LET rest(st1) == basepoint_mul_phase_every_digit(tables, a, st1, i + 1)
         IN  Bind([P |-> completed_to_extended(add_affine_niels(st.P,
                             select_affine_niels(tables[(i \div 2) + 1], a[i + 1]))),
                   trace |-> Append(st.trace, <<"select_add", i, i \div 2>>)], rest)

\* P <- P + tables[i/2].select(a[i]) for i = from, from + 2, .. below NumDigits.
\* st.P is the accumulator; st.trace lists what has been done: the digit index
\* and the table index of each select-and-add, counted from 0 as in the source
RECURSIVE basepoint_mul_phase(_, _, _, _)
basepoint_mul_phase(tables, a, st, i) ==
    IF i >= NumDigits THEN st
    ELSE LET rest(st1) == basepoint_mul_phase(tables, a, st1, i + 2)
         IN  Bind([P |-> completed_to_extended(add_affine_niels(st.P,
                             select_affine_niels(tables[(i \div 2) + 1], a[i + 1]))),
                   trace |-> Append(st.trace, <<"select_add", i, i \div 2>>)], rest)

\* basepoint_mul without the multiplication by 16 between the odd and the even digits
basepoint_mul_unscaled(tables, scalar) ==
    LET a == to_radix_16(scalar)
        even(odd) == basepoint_mul_phase(tables, a, odd, 0)
    IN  Bind(basepoint_mul_phase(tables, a, [P |-> identity, trace |-> <<>>], 1), even).P

\* the odd digits, the multiplication by 16, the even digits: the point and the
\* trace of the operations
basepoint_mul_run(tables, scalar) ==
    LET a == to_radix_16(scalar)
        even(scaled) == basepoint_mul_phase(tables, a, scaled, 0)
        scale(odd) == Bind([P |-> mul_by_pow_2(odd.P, 4),
                            trace |-> Append(odd.trace, <<"mul_by_pow_2", 4>>)], even)
    IN  Bind(basepoint_mul_phase(tables, a, [P |-> identity, trace |-> <<>>], 1), scale)

basepoint_mul(tables, scalar) == basepoint_mul_run(tables, scalar).P

\* &EdwardsBasepointTable * &Scalar
table_mul(tables, scalar) == basepoint_mul(tables, scalar)

\* &Scalar * &EdwardsBasepointTable
scalar_mul_table(scalar, tables) == table_mul(tables, scalar)

\* a basepoint() that selects the second multiple
basepoint_selects_two(tables) ==
    completed_to_extended(add_affine_niels(identity, select_affine_niels(tables[1], 2)))

basepoint(tables) ==
    completed_to_extended(add_affine_niels(identity, select_affine_niels(tables[1], 1)))

ED25519_BASEPOINT_POINT == unwrap(decompress(ED25519_BASEPOINT_COMPRESSED))

ED25519_BASEPOINT_TABLE == create(ED25519_BASEPOINT_POINT)

\* ------------------------------------------------------------------------
\* Straus (scalar_mul/straus.rs) and Pippenger (scalar_mul/pippenger.rs)
\* The loops over the batch are left folds in the order of the slices; a
\* fold over lo..hi is written as the fold over its first half followed by
\* the fold over its second half.
\* ------------------------------------------------------------------------

\* the lookup tables of points[lo..hi], in order
RECURSIVE straus_tables(_, _, _)
straus_tables(points, lo, hi) ==
    IF lo > hi THEN <<>>
    ELSE IF lo = hi THEN <<lookup_table_projective_niels(points[lo])>>
    ELSE LET mid == (lo + hi) \div 2
             second(ts) == ts \o straus_tables(points, mid + 1, hi)
         IN  Bind(straus_tables(points, lo, mid), second)

\* the radix-16 digits of every scalar
scalar_digits(scalars) == [j \in 1 .. Len(scalars) |-> to_radix_16(scalars[j])]

\* Q <- Q + tables[j].select(digits[j][i]) for j = lo .. hi
RECURSIVE straus_column(_, _, _, _, _, _)
straus_column(tables, digits, Q, i, lo, hi) ==
    IF lo > hi THEN Q
    ELSE IF lo = hi
    THEN completed_to_extended(add_projective_niels(Q,
             select_projective_niels(tables[lo], digits[lo][i + 1])))
    ELSE LET mid == (lo + hi) \div 2
             second(Q1) == straus_column(tables, digits, Q1, i, mid + 1, hi)
         IN  Bind(straus_column(tables, digits, Q, i, lo, mid), second)

\* for i from the top digit down to 0: Q <- 16 Q, then the column of digit i
RECURSIVE straus_loop(_, _, _, _)
straus_loop(tables, digits, Q, i) ==
    IF i < 0 THEN Q
    ELSE LET column(Q16) == straus_column(tables, digits, Q16, i, 1, Len(tables))
             rest(Q1) == straus_loop(tables, digits, Q1, i - 1)
         IN  Bind(Bind(mul_by_pow_2(Q, 4), column), rest)

\* Straus::multiscalar_mul
straus_multiscalar_mul(scalars, points) ==
    LET run(tables) == straus_loop(tables, scalar_digits(scalars), identity, NumDigits - 1)
    IN  Bind(straus_tables(points, 1, Len(points)), run)

\* Straus::optional_multiscalar_mul on points that are all present
straus_optional_multiscalar_mul(scalars, points) ==
    Some(straus_multiscalar_mul(scalars, points))

\* buckets[|d|] <- buckets[|d|] +/- points[j] for the digit d of scalar j
pippenger_put(buckets, d, point) ==
    IF d > 0
    THEN [buckets EXCEPT ![d] = completed_to_extended(
             add_projective_niels(buckets[d], to_projective_niels(point)))]
    ELSE IF d < 0
    THEN [buckets EXCEPT ![-d] = completed_to_extended(
             sub_projective_niels(buckets[-d], to_projective_niels(point)))]
    ELSE buckets

\* the buckets of digit i after the points lo .. hi
RECURSIVE pippenger_buckets(_, _, _, _, _, _)
pippenger_buckets(buckets, digits, points, i, lo, hi) ==
    IF lo > hi THEN buckets
    ELSE IF lo = hi THEN pippenger_put(buckets, digits[lo][i + 1], points[lo])
    ELSE LET mid == (lo + hi) \div 2
             second(b) == pippenger_buckets(b, digits, points, i, mid + 1, hi)
         IN  Bind(pippenger_buckets(buckets, digits, points, i, lo, mid), second)

\* sum of k * buckets[k]: running sums from the last bucket down
RECURSIVE pippenger_fold(_, _, _, _)
pippenger_fold(buckets, intermediate, total, k) ==
    IF k < 1 THEN total
    ELSE LET rest(im) ==
                 LET next(s) == pippenger_fold(buckets, im, s, k - 1)
                 IN  Bind(completed_to_extended(
                              add_projective_niels(total, to_projective_niels(im))), next)
         IN  Bind(completed_to_extended(add_projective_niels(
                      intermediate, to_projective_niels(buckets[k]))), rest)

\* the window sum of digit i
pippenger_column(digits, points, i) ==
    LET fold(b) == pippenger_fold(b, b[8], b[8], 7)
    IN  Bind(pippenger_buckets([k \in 1 .. 8 |-> identity], digits, points, i,
                               1, Len(points)), fold)

\* total <- 16 total + column(i) for i below the top digit, down to 0
RECURSIVE pippenger_loop(_, _, _, _)
pippenger_loop(digits, points, total, i) ==
    IF i < 0 THEN total
    ELSE LET plus(t16) ==
                 LET addcol(c) == completed_to_extended(
                                      add_projective_niels(t16, to_projective_niels(c)))
                 IN  Bind(pippenger_column(digits, points, i), addcol)
             rest(t1) == pippenger_loop(digits, points, t1, i - 1)
         IN  Bind(Bind(mul_by_pow_2(total, 4), plus), rest)

\* Pippenger::optional_multiscalar_mul on points that are all present
pippenger_optional_multiscalar_mul(scalars, points) ==
    LET digits == scalar_digits(scalars)
        run(hi_column) == pippenger_loop(digits, points, hi_column, NumDigits - 2)
    IN  Some(Bind(pippenger_column(digits, points, NumDigits - 1), run))

\* ------------------------------------------------------------------------
\* Multiscalar multiplication: entry checks and dispatch (edwards.rs)
\* ------------------------------------------------------------------------

\* an iterator's size_hint() is (lo, hi); hi = NoUpper stands for None
NoUpper == -1

\* batch size from which the variable-time entry point uses Pippenger
PippengerThreshold == 190

\* an entry check that compares the lower bounds only
size_hints_lower_agree(s_hint, p_hint) == s_hint.lo = p_hint.lo

\* an entry check without the third assertion, on the upper bound of the points
size_hints_agree_but_p_hi(s_hint, p_hint) ==
    /\ s_hint.lo = p_hint.lo
    /\ s_hint.hi = s_hint.lo

\* the three assert_eq! on the size hints
size_hints_agree(s_hint, p_hint) ==
    /\ s_hint.lo = p_hint.lo
    /\ s_hint.hi = s_hint.lo
    /\ p_hint.hi = p_hint.lo

\* the backend MultiscalarMul::multiscalar_mul forwards to
multiscalar_mul_backend(size) == "straus"

\* a dispatch that still uses Straus at the threshold
optional_backend_inclusive(size) ==
    IF size <= PippengerThreshold THEN "straus" ELSE "pippenger"

\* the backend VartimeMultiscalarMul::optional_multiscalar_mul forwards to
optional_multiscalar_mul_backend(size) ==
    IF size < PippengerThreshold THEN "straus" ELSE "pippenger"

\* a multiscalar_mul whose entry check has consumed the first pair
multiscalar_mul_skips_first(scalars_in, points_in) ==
    IF scalars_in = <<>> THEN identity
    ELSE straus_multiscalar_mul(Tail(scalars_in), Tail(points_in))

\* MultiscalarMul::multiscalar_mul once the entry checks have passed
multiscalar_mul(scalars_in, points_in) == straus_multiscalar_mul(scalars_in, points_in)

\* VartimeMultiscalarMul::optional_multiscalar_mul once the entry checks
\* have passed, on points that are all present
optional_multiscalar_mul(scalars_in, points_in) ==
    IF optional_multiscalar_mul_backend(Len(scalars_in)) = "straus"
    THEN straus_optional_multiscalar_mul(scalars_in, points_in)
    ELSE pippenger_optional_multiscalar_mul(scalars_in, points_in)

\* VartimeMultiscalarMul::vartime_multiscalar_mul: every point wrapped in
\* Some, the result unwrapped
vartime_multiscalar_mul(scalars_in, points_in) ==
    LET out(r) == unwrap(r)
    IN  Bind(optional_multiscalar_mul(scalars_in, points_in), out)

\* size_hint() of the iterator of a Vec or slice
slice_hint(items) == [len |-> Len(items), lo |-> Len(items), hi |-> Len(items)]

\* ------------------------------------------------------------------------
\* State: the values a caller holds, and a record of the last call
\* ------------------------------------------------------------------------

VARIABLES
    acc,    \* an EdwardsPoint: the receiver of the operations
    rhs,    \* an EdwardsPoint: the last point unwrapped from a decompression
    table,  \* an EdwardsBasepointTable
    last,   \* the last call: its name, its arguments and what it returned
    steps,  \* number of group operations applied to acc since it was set
    batch,  \* number of (scalar, point) pairs the caller has gathered
    fe,     \* a FieldElement51: the receiver of the field operations
    fe_rhs, \* a FieldElement51: the other operand
    buf,    \* a [u8; 32] the caller holds
    scalars, \* a Vec<Scalar> the caller has filled
    points  \* a Vec<EdwardsPoint> the caller has filled

vars == <<acc, rhs, table, last, steps, batch, scalars, points, fe, fe_rhs, buf>>

\* longest chain of group operations on one accumulator
MaxSteps == 1

\* largest k given to mul_by_pow_2
MaxPow2 == 2

\* longest iterator given to sum
MaxSum == 2

\* largest k given to mul_by_pow_2 where nothing else is done to the point
MaxDoublings == 4

\* largest k given to pow2k
MaxSquarings == 3

\* largest batch size given to the multiscalar entry points
MaxBatch == 191

\* the largest scalar the type allows (2^255 - 1 in the source)
LargestScalar == (16 ^ NumDigits) \div 2 - 1

\* most items pushed one at a time onto each Vec
MaxPush == 2

\* the points pushed onto the Vec: the basepoint, and a point of order 28
\* with Z other than 1
PointInputs == {ED25519_BASEPOINT_POINT, double(unwrap(decompress(74)))}

\* the sizes of the batches filled at once: either side of the threshold
FillSizes == {PippengerThreshold - 1, PippengerThreshold}

\* the scalar and the point at place i of a batch filled at once
FillScalar(i) == (1237 * i + 11) % (LargestScalar + 1)

FillPoint(i) ==
    IF i % 2 = 1 THEN ED25519_BASEPOINT_POINT ELSE double(unwrap(decompress(74)))

\* the encodings the group operations draw their operands from: a point of
\* order 8, a point of full order with bit 255 set, a point of prime order
\* with a non-canonical y, and a y that is on no point of the curve
GroupInputs == {16, 74, 63, 5}

\* the scalars the multiplications draw from
ScalarInputs == {0, 8, 300}

\* the encodings of the eight torsion points, of the basepoint (order 7) and of a
\* point of order 56
TorsionInputs == {0, 1, 16, 45, 60, 64, 80, 109}

CofactorInputs == TorsionInputs \cup {ED25519_BASEPOINT_COMPRESSED, 74}

\* encodings of a point of order 56, of its negative and of the point of order 2
LawInputs == {74, 10, 60}

\* scalars for the fixed-base comb: digits that are zero, positive, negative
\* (300 = 1, 3, -4) and carried into (the largest scalar)
CombScalars == {0, 1, 300, 4660, LargestScalar}

\* encodings of the points basepoint tables are created from: one that generates
\* the whole group and one of order 8
TableInputs == {74, 16}

Init ==
    /\ acc = identity
    /\ rhs = identity
    /\ table = ED25519_BASEPOINT_TABLE
    /\ last = [op |-> "init"]
    /\ steps = 0
    /\ batch = 0
    /\ scalars = <<>>
    /\ points = <<>>
    /\ fe = zero
    /\ fe_rhs = one
    /\ buf = 0

\* CompressedEdwardsY(s).decompress()
Decompress(s) ==
    /\ \E r \in {decompress(s)} :
          last' = [op |-> "decompress", bytes |-> s, ret |-> r]
    /\ UNCHANGED <<acc, rhs, table, steps, batch, scalars, points, fe, fe_rhs, buf>>

\* Option::unwrap on the point a decompression returned
Unwrap ==
    /\ last.op = "decompress"
    /\ is_some(last.ret)
    /\ rhs' = unwrap(last.ret)
    /\ last' = [op |-> "unwrap"]
    /\ UNCHANGED <<acc, table, steps, batch, scalars, points, fe, fe_rhs, buf>>

\* EdwardsPoint is Copy: the decompressed point becomes the receiver
Clone ==
    /\ acc' = rhs
    /\ steps' = 0
    /\ last' = [op |-> "clone"]
    /\ UNCHANGED <<rhs, table, batch, scalars, points, fe, fe_rhs, buf>>

Identity ==
    /\ acc' = identity
    /\ steps' = 0
    /\ last' = [op |-> "identity"]
    /\ UNCHANGED <<rhs, table, batch, scalars, points, fe, fe_rhs, buf>>

\* a chain of group operations on one receiver may go on
MayStep == steps < MaxSteps

\* a group operation that replaces the receiver by r
Step(name, r) ==
    /\ acc' = r
    /\ steps' = steps + 1
    /\ last' = [op |-> name]
    /\ UNCHANGED <<rhs, table, batch, scalars, points, fe, fe_rhs, buf>>

Add == MayStep /\ \E r \in {add(acc, rhs)} : Step("add", r)

Sub == MayStep /\ \E r \in {sub(acc, rhs)} : Step("sub", r)

Neg == MayStep /\ \E r \in {neg(acc)} : Step("neg", r)

Double == MayStep /\ \E r \in {double(acc)} : Step("double", r)

MulByPow2(k) ==
    /\ MayStep
    /\ \E run \in {mul_by_pow_2_run(acc, k)} :
          /\ acc' = run.point
          /\ last' = [op |-> "mul_by_pow_2", k |-> k, doublings |-> run.doublings]
    /\ steps' = steps + 1
    /\ UNCHANGED <<rhs, table, batch, scalars, points, fe, fe_rhs, buf>>

MulByCofactor == MayStep /\ \E r \in {mul_by_cofactor(acc)} : Step("mul_by_cofactor", r)

\* a multiplication that replaces the receiver by r; the scalar is recorded
StepScalar(name, scalar, r) ==
    /\ acc' = r
    /\ steps' = steps + 1
    /\ last' = [op |-> name, scalar |-> scalar]
    /\ UNCHANGED <<rhs, table, batch, scalars, points, fe, fe_rhs, buf>>

Mul(scalar) == MayStep /\ \E r \in {mul(acc, scalar)} : StepScalar("mul", scalar, r)

ScalarMul(scalar) ==
    MayStep /\ \E r \in {scalar_mul_point(scalar, acc)} : StepScalar("scalar_mul", scalar, r)

Sum(items) == MayStep /\ \E r \in {sum(items)} : Step("sum", r)

ConditionalSelect(choice) ==
    /\ MayStep
    /\ \E r \in {conditional_select(acc, rhs, choice)} : acc' = r
    /\ steps' = steps + 1
    /\ last' = [op |-> "conditional_select", choice |-> choice]
    /\ UNCHANGED <<rhs, table, batch, scalars, points, fe, fe_rhs, buf>>

\* &table * &scalar, which is table.basepoint_mul(&scalar)
BasepointMul(scalar) ==
    /\ MayStep
    /\ \E run \in {basepoint_mul_run(table, scalar)} :
          /\ acc' = run.P
          /\ last' = [op |-> "basepoint_mul", scalar |-> scalar, trace |-> run.trace]
    /\ steps' = steps + 1
    /\ UNCHANGED <<rhs, table, batch, scalars, points, fe, fe_rhs, buf>>

ScalarMulTable(scalar) ==
    MayStep /\ \E r \in {scalar_mul_table(scalar, table)} :
                  StepScalar("scalar_mul_table", scalar, r)

IsSmallOrder ==
    /\ \E b \in {is_small_order(acc)} : last' = [op |-> "is_small_order", ret |-> b]
    /\ UNCHANGED <<acc, rhs, table, steps, batch, scalars, points, fe, fe_rhs, buf>>

IsTorsionFree ==
    /\ \E b \in {is_torsion_free(acc)} : last' = [op |-> "is_torsion_free", ret |-> b]
    /\ UNCHANGED <<acc, rhs, table, steps, batch, scalars, points, fe, fe_rhs, buf>>

ToMontgomery ==
    /\ \E u \in {to_montgomery(acc)} : last' = [op |-> "to_montgomery", ret |-> u]
    /\ UNCHANGED <<acc, rhs, table, steps, batch, scalars, points, fe, fe_rhs, buf>>

\* EdwardsBasepointTable::create(&rhs)
CreateTable ==
    /\ \E t \in {create(rhs)} : table' = t
    /\ last' = [op |-> "create"]
    /\ UNCHANGED <<acc, rhs, steps, batch, scalars, points, fe, fe_rhs, buf>>

\* a basepoint() that writes to the first lookup table
BasepointWritesTable ==
    /\ MayStep
    /\ \E r \in {basepoint(table)} : acc' = r
    /\ table' = [table EXCEPT ![1] = table[2]]
    /\ steps' = steps + 1
    /\ last' = [op |-> "basepoint"]
    /\ UNCHANGED <<rhs, batch, scalars, points, fe, fe_rhs, buf>>

Basepoint == MayStep /\ \E r \in {basepoint(table)} : Step("basepoint", r)

Compress ==
    /\ \E s \in {compress(acc)} : last' = [op |-> "compress", ret |-> s]
    /\ UNCHANGED <<acc, rhs, table, steps, batch, scalars, points, fe, fe_rhs, buf>>

CtEq ==
    /\ \E c \in {ct_eq(acc, rhs)} : last' = [op |-> "ct_eq", ret |-> c]
    /\ UNCHANGED <<acc, rhs, table, steps, batch, scalars, points, fe, fe_rhs, buf>>

\* PartialEq::eq, which calls ct_eq
Eq ==
    /\ \E b \in {eq(acc, rhs)} : last' = [op |-> "eq", ret |-> b, calls |-> <<"ct_eq">>]
    /\ UNCHANGED <<acc, rhs, table, steps, batch, scalars, points, fe, fe_rhs, buf>>

\* the caller gathers one more (scalar, point) pair
Gather ==
    /\ batch < MaxBatch
    /\ batch' = batch + 1
    /\ last' = [op |-> "gather"]
    /\ UNCHANGED <<acc, rhs, table, steps, scalars, points, fe, fe_rhs, buf>>

\* the iterators of n items a caller may pass: size_hint() reports (lo, hi)
\* with lo <= n <= hi; a slice reports (n, Some(n))
Hints(n) ==
    {[len |-> n, lo |-> l, hi |-> h] :
        l \in {n, IF n > 0 THEN n - 1 ELSE 0}, h \in {n, NoUpper}}

\* a multiscalar entry point: panics on the size hints, else one backend call
Dispatch(name, s_hint, p_hint, backend) ==
    /\ last' = IF size_hints_agree(s_hint, p_hint)
               THEN [op |-> name, scalars |-> s_hint, points |-> p_hint,
                     panicked |-> FALSE, calls |-> <<backend>>, returned |-> TRUE]
               ELSE [op |-> name, scalars |-> s_hint, points |-> p_hint,
                     panicked |-> TRUE, calls |-> <<>>, returned |-> FALSE]
    /\ UNCHANGED <<acc, rhs, table, steps, batch, scalars, points, fe, fe_rhs, buf>>

MultiscalarMul(s_hint, p_hint) ==
    Dispatch("multiscalar_mul", s_hint, p_hint, multiscalar_mul_backend(s_hint.lo))

OptionalMultiscalarMul(s_hint, p_hint) ==
    Dispatch("optional_multiscalar_mul", s_hint, p_hint,
             optional_multiscalar_mul_backend(s_hint.lo))

PushScalar(scalar) ==
    /\ Len(scalars) < MaxPush
    /\ scalars' = Append(scalars, scalar)
    /\ last' = [op |-> "push_scalar"]
    /\ UNCHANGED <<acc, rhs, table, steps, batch, points, fe, fe_rhs, buf>>

PushPoint(point) ==
    /\ Len(points) < MaxPush
    /\ points' = Append(points, point)
    /\ last' = [op |-> "push_point"]
    /\ UNCHANGED <<acc, rhs, table, steps, batch, scalars, fe, fe_rhs, buf>>

\* the caller fills both empty Vecs with n pairs
Fill(n) ==
    /\ scalars = <<>>
    /\ points = <<>>
    /\ \E ss \in {[i \in 1 .. n |-> FillScalar(i)]} :
       \E ps \in {[i \in 1 .. n |-> FillPoint(i)]} :
           scalars' = ss /\ points' = ps
    /\ last' = [op |-> "fill"]
    /\ UNCHANGED <<acc, rhs, table, steps, batch, fe, fe_rhs, buf>>

\* a multiscalar entry point on the two Vecs: the entry checks, then the
\* backend's result
OnVecs(name, backend, result(_, _)) ==
    /\ \E s_hint \in {slice_hint(scalars)} : \E p_hint \in {slice_hint(points)} :
          IF size_hints_agree(s_hint, p_hint)
          THEN \E r \in {result(scalars, points)} :
                   last' = [op |-> name, scalars |-> s_hint, points |-> p_hint,
                            panicked |-> FALSE, calls |-> <<backend>>,
                            returned |-> TRUE, ret |-> r]
          ELSE last' = [op |-> name, scalars |-> s_hint, points |-> p_hint,
                        panicked |-> TRUE, calls |-> <<>>, returned |-> FALSE]
    /\ UNCHANGED <<acc, rhs, table, steps, batch, scalars, points, fe, fe_rhs, buf>>

MultiscalarMulOnVecs ==
    OnVecs("multiscalar_mul", multiscalar_mul_backend(Len(scalars)), multiscalar_mul)

VartimeMultiscalarMulOnVecs ==
    OnVecs("vartime_multiscalar_mul", optional_multiscalar_mul_backend(Len(scalars)),
           vartime_multiscalar_mul)

\* the group operations on the caller's points
Next ==
    \/ \E s \in GroupInputs : Decompress(s)
    \/ Unwrap
    \/ Clone
    \/ Identity
    \/ Add
    \/ Sub
    \/ Neg
    \/ Double
    \/ \E k \in 1 .. MaxPow2 : MulByPow2(k)
    \/ MulByCofactor
    \/ \E scalar \in ScalarInputs : Mul(scalar)
    \/ \E n \in 0 .. MaxSum : \E items \in [1 .. n -> {acc, rhs}] : Sum(items)
    \/ \E choice \in {0, 1} : ConditionalSelect(choice)
    \/ \E scalar \in ScalarInputs : BasepointMul(scalar)
    \/ Basepoint
    \/ Compress
    \/ CtEq
    \/ Eq

Spec == Init /\ [][Next]_vars

\* decompression of every byte string
NextCodec == \E s \in ByteStrings : Decompress(s)

SpecCodec == Init /\ [][NextCodec]_vars

\* the multiscalar entry points on the gathered batch, whose iterators
\* report any of the size hints, with possibly one point more than scalars
NextMsm ==
    \/ Gather
    \/ \E s_hint \in Hints(batch) : \E plo \in {batch, batch + 1} : \E p_hint \in Hints(plo) :
           \/ MultiscalarMul(s_hint, p_hint)
           \/ OptionalMultiscalarMul(s_hint, p_hint)

SpecMsm == Init /\ [][NextMsm]_vars

\* the multiscalar entry points on Vecs of scalars and points
NextBatch ==
    \/ \E scalar \in ScalarInputs \cup {LargestScalar} : PushScalar(scalar)
    \/ \E point \in PointInputs : PushPoint(point)
    \/ \E n \in FillSizes : Fill(n)
    \/ MultiscalarMulOnVecs
    \/ VartimeMultiscalarMulOnVecs

SpecBatch == Init /\ [][NextBatch]_vars

\* basepoint tables of decoded points, and the multiplications on tables and points
NextTable ==
    \/ \E s \in TableInputs : Decompress(s)
    \/ Unwrap
    \/ Clone
    \/ CreateTable
    \/ \E scalar \in ScalarInputs :
          \/ BasepointMul(scalar)
          \/ ScalarMulTable(scalar)
          \/ Mul(scalar)
          \/ ScalarMul(scalar)
    \/ Basepoint

SpecTable == Init /\ [][NextTable]_vars

\* the base of a table: basepoint() and the multiplication by Scalar::one()
NextBasepoint ==
    \/ \E s \in TableInputs : Decompress(s)
    \/ Unwrap
    \/ CreateTable
    \/ Identity
    \/ Basepoint
    \/ BasepointMul(1)
    \/ ScalarMulTable(1)

SpecBasepoint == Init /\ [][NextBasepoint]_vars

\* doublings of a decoded point
NextPow2 ==
    \/ \E s \in TableInputs : Decompress(s)
    \/ Unwrap
    \/ Clone
    \/ Double
    \/ Add
    \/ \E k \in 1 .. MaxDoublings : MulByPow2(k)
    \/ MulByCofactor

SpecPow2 == Init /\ [][NextPow2]_vars

\* tables created from decoded points and the fixed-base multiplication by them
NextComb ==
    \/ \E s \in TableInputs : Decompress(s)
    \/ Unwrap
    \/ CreateTable
    \/ Identity
    \/ \E scalar \in CombScalars : BasepointMul(scalar)

SpecComb == Init /\ [][NextComb]_vars

\* the cofactor, the order predicates and the conversion to Montgomery form on
\* decoded points and their multiples by 8
NextCofactor ==
    \/ \E s \in CofactorInputs : Decompress(s)
    \/ Unwrap
    \/ Clone
    \/ MulByCofactor
    \/ IsSmallOrder
    \/ IsTorsionFree
    \/ ToMontgomery

SpecCofactor == Init /\ [][NextCofactor]_vars

\* ------------------------------------------------------------------------
\* FieldElement51: the caller holds two field elements and a byte array
\* ------------------------------------------------------------------------

\* any 32 bytes may be handed to from_bytes
InitField ==
    /\ Init!1 /\ Init!2 /\ Init!3 /\ Init!4 /\ Init!5 /\ Init!6 /\ Init!7 /\ Init!8
    /\ fe = zero
    /\ fe_rhs = one
    /\ buf \in ByteStrings

\* fe = FieldElement51::from_bytes(&buf)
FromBytes ==
    /\ \E r \in {from_bytes(buf)} : fe' = r
    /\ last' = [op |-> "from_bytes", bytes |-> buf]
    /\ UNCHANGED <<acc, rhs, table, steps, batch, scalars, points, fe_rhs, buf>>

\* buf = fe.to_bytes()
ToBytes ==
    /\ \E b \in {to_bytes(fe)} : buf' = b
    /\ last' = [op |-> "to_bytes"]
    /\ UNCHANGED <<acc, rhs, table, steps, batch, scalars, points, fe, fe_rhs>>

\* a field operation that replaces the receiver by r
FieldStep(name, r) ==
    /\ fe' = r
    /\ last' = [op |-> name]
    /\ UNCHANGED <<acc, rhs, table, steps, batch, scalars, points, fe_rhs, buf>>

FeAdd == \E r \in {fe_add(fe, fe_rhs)} : FieldStep("fe_add", r)

FeSub == \E r \in {fe_sub(fe, fe_rhs)} : FieldStep("fe_sub", r)

FeNeg == \E r \in {fe_neg(fe)} : FieldStep("fe_neg", r)

NextField ==
    \/ FromBytes
    \/ ToBytes
    \/ FeAdd
    \/ FeSub
    \/ FeNeg

SpecField == InitField /\ [][NextField]_vars

\* field elements that differ in the low limb, in the high limb or in both, one
\* of them above 2^FieldBits
SelectInputs == {0, 1, LimbBase, LimbBase + 1, P + 1, TwoToBits + 2}

\* the caller holds any two of them, the identity and the basepoint
InitSelect ==
    /\ acc = identity
    /\ rhs = ED25519_BASEPOINT_POINT
    /\ Init!3 /\ Init!4 /\ Init!5 /\ Init!6 /\ Init!7 /\ Init!8
    /\ fe \in SelectInputs
    /\ fe_rhs \in SelectInputs
    /\ buf = 0

\* fe = FieldElement51::conditional_select(&fe, &fe_rhs, choice)
FeConditionalSelect(choice) ==
    /\ \E r \in {fe_conditional_select(fe, fe_rhs, choice)} : fe' = r
    /\ last' = [op |-> "fe_conditional_select", choice |-> choice]
    /\ UNCHANGED <<acc, rhs, table, steps, batch, scalars, points, fe_rhs, buf>>

\* fe.conditional_assign(&fe_rhs, choice)
FeConditionalAssign(choice) ==
    /\ \E r \in {fe_conditional_assign(fe, fe_rhs, choice)} : fe' = r
    /\ last' = [op |-> "fe_conditional_assign", choice |-> choice]
    /\ UNCHANGED <<acc, rhs, table, steps, batch, scalars, points, fe_rhs, buf>>

\* FieldElement51::conditional_swap(&mut fe, &mut fe_rhs, choice)
FeConditionalSwap(choice) ==
    /\ \E r \in {fe_conditional_swap(fe, fe_rhs, choice)} : fe' = r[1] /\ fe_rhs' = r[2]
    /\ last' = [op |-> "fe_conditional_swap", choice |-> choice]
    /\ UNCHANGED <<acc, rhs, table, steps, batch, scalars, points, buf>>

NextSelect ==
    \/ \E choice \in {0, 1} :
          \/ FeConditionalSelect(choice)
          \/ FeConditionalAssign(choice)
          \/ FeConditionalSwap(choice)
          \/ ConditionalSelect(choice)
    \/ Identity
    \/ Clone

SpecSelect == InitSelect /\ [][NextSelect]_vars

\* r = fe.pow2k(k)
Pow2k(k) ==
    /\ \E run \in {pow2k_loop(fe, k, 0)} :
          last' = [op |-> "pow2k", k |-> k, ret |-> run.output,
                   squarings |-> run.squarings]
    /\ UNCHANGED <<acc, rhs, table, steps, batch, scalars, points, fe, fe_rhs, buf>>

\* r = fe.square()
Square ==
    /\ \E r \in {square(fe)} : last' = [op |-> "square", ret |-> r]
    /\ UNCHANGED <<acc, rhs, table, steps, batch, scalars, points, fe, fe_rhs, buf>>

\* powers of decoded field elements and of their sums and differences with one
NextPow ==
    \/ FromBytes
    \/ FeAdd
    \/ FeSub
    \/ \E k \in 1 .. MaxSquarings : Pow2k(k)
    \/ Square

SpecPow == InitField /\ [][NextPow]_vars

\* limbs up to 2^54 = 8 * 2^51
LooseBound == 8 * LimbBase

\* limb values around the limbs of p and 2p, and the ends of the loose range
LimbInputs == {0, 1, LimbBase - 1, LimbBase, two_p[1], two_p[1] + 1, two_p[2],
               two_p[2] + 1, LooseBound}

LooseElements == {<<l0, l1>> : l0 \in LimbInputs, l1 \in LimbInputs}

\* the caller holds any two field elements with limbs in the loose range; here
\* fe and fe_rhs are the limbs themselves, which the integer does not determine
InitLoose ==
    /\ Init!1 /\ Init!2 /\ Init!3 /\ Init!4 /\ Init!5 /\ Init!6 /\ Init!7 /\ Init!8
    /\ fe \in LooseElements
    /\ fe_rhs \in LooseElements
    /\ buf = 0

\* r = &fe - &fe_rhs
SubLimbs ==
    /\ \E r \in {sub_limbs(fe, fe_rhs)} :
          last' = [op |-> "sub_limbs", out |-> r.out, wide |-> r.wide]
    /\ UNCHANGED <<acc, rhs, table, steps, batch, scalars, points, fe, fe_rhs, buf>>

\* r = -&fe
NegLimbs ==
    /\ \E r \in {neg_limbs(fe)} :
          last' = [op |-> "neg_limbs", out |-> r.out, wide |-> r.wide]
    /\ UNCHANGED <<acc, rhs, table, steps, batch, scalars, points, fe, fe_rhs, buf>>

\* differences and negatives of field elements with limbs in the loose range
NextLoose ==
    \/ SubLimbs
    \/ NegLimbs

SpecLoose == InitLoose /\ [][NextLoose]_vars

\* the caller holds the limbs of zero, one or minus_one
InitLimbs ==
    /\ Init!1 /\ Init!2 /\ Init!3 /\ Init!4 /\ Init!5 /\ Init!6 /\ Init!7 /\ Init!8
    /\ fe \in {limbs(zero), limbs(one), limbs(minus_one)}
    /\ fe_rhs \in {limbs(zero), limbs(one), limbs(minus_one)}
    /\ buf = 0

\* fe = r.out, with the exact limb values the operation computed on the way
LimbsStep(name, r) ==
    /\ fe' = r.out
    /\ last' = [op |-> name, a |-> fe, wide |-> r.wide, products |-> r.products]
    /\ UNCHANGED <<acc, rhs, table, steps, batch, scalars, points, fe_rhs, buf>>

\* the bytes handed to from_bytes: around 0, p and 2^255, and all ones
LimbsBytes == {0, 1, P - 1, P, TwoToBits - 1, TwoToBits, 2 * TwoToBits - 1}

\* fe = FieldElement51::from_bytes(&bytes)
LimbsFromBytes(bytes) ==
    /\ fe' = from_bytes_limbs(bytes).out
    /\ last' = [op |-> "from_bytes", a |-> fe, wide |-> <<>>, products |-> <<>>]
    /\ UNCHANGED <<acc, rhs, table, steps, batch, scalars, points, fe_rhs, buf>>

LimbsAdd == \E r \in {add_limbs(fe, fe_rhs)} : LimbsStep("add", r)

LimbsSub ==
    \E r \in {sub_limbs(fe, fe_rhs)} :
        LimbsStep("sub", [out |-> r.out, wide |-> r.wide, products |-> <<>>])

LimbsNeg ==
    \E r \in {neg_limbs(fe)} :
        LimbsStep("neg", [out |-> r.out, wide |-> r.wide, products |-> <<>>])

LimbsMul == \E r \in {mul_limbs(fe, fe_rhs)} : LimbsStep("mul", r)

LimbsSquare == \E r \in {square_limbs(fe)} : LimbsStep("square", r)

LimbsSquare2 == \E r \in {square2_limbs(fe)} : LimbsStep("square2", r)

LimbsPow2k(k) == \E r \in {pow2k_limbs(fe, k)} : LimbsStep("pow2k", r)

\* fe.conditional_swap(&mut fe_rhs, choice), limb by limb
LimbsConditionalSwap(choice) ==
    /\ \E s0 \in {u64_conditional_swap(fe[1], fe_rhs[1], choice)},
          s1 \in {u64_conditional_swap(fe[2], fe_rhs[2], choice)} :
          /\ fe' = <<s0[1], s1[1]>>
          /\ fe_rhs' = <<s0[2], s1[2]>>
    /\ last' = [op |-> "conditional_swap", a |-> fe, wide |-> <<>>, products |-> <<>>]
    /\ UNCHANGED <<acc, rhs, table, steps, batch, scalars, points, buf>>

\* fe_rhs.conditional_assign(&fe, choice), limb by limb
LimbsConditionalAssign(choice) ==
    /\ fe_rhs' = << u64_conditional_assign(fe_rhs[1], fe[1], choice),
                    u64_conditional_assign(fe_rhs[2], fe[2], choice) >>
    /\ last' = [op |-> "conditional_assign", a |-> fe, wide |-> <<>>, products |-> <<>>]
    /\ UNCHANGED <<acc, rhs, table, steps, batch, scalars, points, fe, buf>>

\* any sequence of the field operations, on limbs
NextLimbs ==
    \/ \E bytes \in LimbsBytes : LimbsFromBytes(bytes)
    \/ LimbsAdd
    \/ LimbsSub
    \/ LimbsNeg
    \/ LimbsMul
    \/ LimbsSquare
    \/ LimbsSquare2
    \/ \E k \in 1 .. MaxSquarings : LimbsPow2k(k)
    \/ \E choice \in {0, 1} : LimbsConditionalSwap(choice)
    \/ \E choice \in {0, 1} : LimbsConditionalAssign(choice)

SpecLimbs == InitLimbs /\ [][NextLimbs]_vars

\* the constant-time entry points on scalars of every shape: fixed-base
\* multiplication by the basepoint table, multiscalar_mul on the two Vecs
NextShape ==
    \/ \E scalar \in CombScalars : BasepointMul(scalar)
    \/ \E scalar \in {0, LargestScalar} : PushScalar(scalar)
    \/ PushPoint(ED25519_BASEPOINT_POINT)
    \/ MultiscalarMulOnVecs

SpecShape == Init /\ [][NextShape]_vars

\* acc = points.iter().sum(): the items are borrowed and the Vec stays
SumBorrowed ==
    /\ \E r \in {sum(points)} : acc' = r
    /\ last' = [op |-> "sum", owned |-> FALSE]
    /\ UNCHANGED <<rhs, table, steps, batch, scalars, points, fe, fe_rhs, buf>>

\* acc = points.into_iter().sum(): the items are owned and the Vec is consumed
SumOwned ==
    /\ \E r \in {sum(points)} : acc' = r
    /\ points' = <<>>
    /\ last' = [op |-> "sum", owned |-> TRUE]
    /\ UNCHANGED <<rhs, table, steps, batch, scalars, fe, fe_rhs, buf>>

\* the points summed: the identity, the basepoint, a point of order 28 with Z
\* other than 1, a point of order 8
SumInputs == PointInputs \cup {identity, unwrap(decompress(16))}

\* sums over Vecs of points
NextSum ==
    \/ \E point \in SumInputs : PushPoint(point)
    \/ SumBorrowed
    \/ SumOwned

SpecSum == Init /\ [][NextSum]_vars

\* sums and differences of a point, its negative and the identity
NextLaws ==
    \/ \E s \in LawInputs : Decompress(s)
    \/ Unwrap
    \/ Clone
    \/ Identity
    \/ Add
    \/ Sub
    \/ Neg

SpecLaws == Init /\ [][NextLaws]_vars

\* ------------------------------------------------------------------------
\* The mathematics the properties are stated in: Fp as 0 .. P-1
\* ------------------------------------------------------------------------

Fp == 0 .. (P - 1)

Inverse(z) == CHOOSE w \in Fp : (w * z) % P = 1

AffineX(p) == ((p.X % P) * Inverse(p.Z % P)) % P

AffineY(p) == ((p.Y % P) * Inverse(p.Z % P)) % P

\* -x^2 + y^2 = 1 + d x^2 y^2 for x, y in Fp
OnCurve(x, y) == (y * y + P * P - x * x) % P = (1 + EDWARDS_D * x * x * y * y) % P

ValidPoint(p) ==
    /\ p.Z % P # 0
    /\ OnCurve(AffineX(p), AffineY(p))
    /\ (p.X * p.Y) % P = (p.Z * p.T) % P

SamePoint(p, q) == AffineX(p) = AffineX(q) /\ AffineY(p) = AffineY(q)

\* another projective representation of the same point, k in 1 .. P-1
Scale(p, k) ==
    [X |-> (k * p.X) % P, Y |-> (k * p.Y) % P, Z |-> (k * p.Z) % P, T |-> (k * p.T) % P]

\* u = y^2 - 1 and v = d y^2 + 1 for the y field of the byte string s
CurveU(s) == ((s % TwoToBits) * (s % TwoToBits) + P - 1) % P

CurveV(s) == (EDWARDS_D * (s % TwoToBits) * (s % TwoToBits) + 1) % P

\* u/v is a square of Fp
IsSquareRatio(u, v) == v % P # 0 /\ \E w \in Fp : (w * w * v) % P = u % P

\* the byte string that differs from s in bit 255 only
FlipSign(s) == (s + TwoToBits) % (2 * TwoToBits)

Decompressed == last.op = "decompress" /\ is_some(last.ret)

\* ------------------------------------------------------------------------
\* Properties
\* ------------------------------------------------------------------------

C2_FailureIsNonSquare ==
    last.op = "decompress" =>
        /\ (last.ret = None) = ~IsSquareRatio(CurveU(last.bytes), CurveV(last.bytes))
        /\ last.ret # None => is_some(last.ret)
        /\ \A f \in {decompress(FlipSign(last.bytes))} : (f = None) = (last.ret = None)

\* a decompression with bit 255 set has failed
C2_Witness == last.op = "decompress" /\ last.ret = None /\ last.bytes >= TwoToBits

\* C3: a successful decompress(s) returns (X, Y, 1, X*Y) with Y the y field
\* of s and X^2 = (Y^2 - 1)/(d Y^2 + 1): a point of the curve with X*Y = Z*T.
C3_DecompressedForm ==
    Decompressed =>
        \A p \in {unwrap(last.ret)} :
            /\ p.Y = last.bytes % TwoToBits
            /\ p.Z = one
            /\ p.T % P = (p.X * p.Y) % P
            /\ (p.X * p.X * CurveV(last.bytes)) % P = CurveU(last.bytes)
            /\ ValidPoint(p)

\* a byte string with bit 255 set has decompressed, its Y without that bit
C3_Witness ==
    /\ Decompressed
    /\ last.bytes >= TwoToBits
    /\ unwrap(last.ret).Y = last.bytes - TwoToBits
    /\ unwrap(last.ret).X % P # 0

\* C4: for the point P compressed, decompress(compress(P)) succeeds, is the
\* same point as P, and compresses to compress(P) again.
C4_PointRoundTrip ==
    last.op = "compress" =>
        \A d \in {decompress(last.ret)} :
            /\ is_some(d)
            /\ \A q \in {unwrap(d)} :
                  /\ SamePoint(q, acc)
                  /\ ct_eq(q, acc) = 1
                  /\ \A c \in {compress(q)} : c = last.ret

\* a point with Z other than 1 and an odd x has been compressed
C4_Witness ==
    /\ last.op = "compress"
    /\ acc.Z % P # 1
    /\ last.ret >= TwoToBits

\* C5 as stated: every s with a canonical y field on which decompress
\* succeeds satisfies compress(decompress(s)) = s, bit 255 included.
C5_AsStated ==
    Decompressed /\ last.bytes % TwoToBits < P =>
        \A c \in {compress(unwrap(last.ret))} : c = last.bytes

\* C5, amended: the same, except when x = 0 and bit 255 of s is set; then
\* compress(decompress(s)) is s with bit 255 cleared.
C5_BitExactInverse ==
    Decompressed /\ last.bytes % TwoToBits < P =>
        \A c \in {compress(unwrap(last.ret))} :
            IF unwrap(last.ret).X % P = 0 /\ last.bytes >= TwoToBits
            THEN c = last.bytes - TwoToBits
            ELSE c = last.bytes

\* a canonical s with bit 255 set and x # 0 has decompressed
C5_Witness ==
    /\ Decompressed
    /\ last.bytes % TwoToBits < P
    /\ last.bytes >= TwoToBits
    /\ unwrap(last.ret).X % P # 0
    /\ unwrap(last.ret).Y % P # 0

\* C6: compress(P) is a byte string whose bits 0..254 hold y = Y/Z as a value
\* in [0, p) and whose bit 255 is the parity of x = X/Z in [0, p); every
\* projective representation of the same point compresses to the same bytes.
C6_CompressFormat ==
    last.op = "compress" =>
        /\ last.ret \in ByteStrings
        /\ last.ret % TwoToBits = AffineY(acc)
        /\ last.ret \div TwoToBits = AffineX(acc) % 2
        /\ \A k \in 1 .. (P - 1) : \A c \in {compress(Scale(acc, k))} : c = last.ret

\* a point with Z other than 1 and an even nonzero x has been compressed
C6_Witness ==
    /\ last.op = "compress"
    /\ acc.Z % P # 1
    /\ AffineX(acc) # 0
    /\ last.ret < TwoToBits

\* C7: when decompress(s) succeeds with (X, Y, Z, T), decompress of s with
\* bit 255 flipped succeeds with (-X, Y, Z, -T).
C7_SignFlip ==
    Decompressed =>
        \A f \in {decompress(FlipSign(last.bytes))} :
            /\ is_some(f)
            /\ \A p \in {unwrap(last.ret)} : \A q \in {unwrap(f)} :
                  /\ (q.X + p.X) % P = 0
                  /\ q.Y = p.Y
                  /\ q.Z = p.Z
                  /\ (q.T + p.T) % P = 0

\* the basepoint encoding with bit 255 flipped has decompressed
C7_Witness ==
    /\ Decompressed
    /\ last.bytes = FlipSign(ED25519_BASEPOINT_COMPRESSED)
    /\ unwrap(last.ret).X % P # 0

\* C8: ct_eq(P1, P2) = 1 exactly when X1*Z2 = X2*Z1 and Y1*Z2 = Y2*Z1 in Fp;
\* for points with Z # 0 that is exactly when the affine points are equal,
\* whatever representations of them are compared.
C8_ProjectiveEquality ==
    last.op = "ct_eq" =>
        /\ last.ret \in {0, 1}
        /\ (last.ret = 1) = (/\ (acc.X * rhs.Z) % P = (rhs.X * acc.Z) % P
                             /\ (acc.Y * rhs.Z) % P = (rhs.Y * acc.Z) % P)
        /\ (last.ret = 1) = SamePoint(acc, rhs)
        /\ \A k \in 1 .. (P - 1) :
              /\ ct_eq(Scale(acc, k), rhs) = last.ret
              /\ ct_eq(Scale(acc, k), Scale(rhs, 2)) = last.ret
              /\ ct_eq(Scale(acc, k), acc) = 1

\* two representations with different Z of one point have compared equal
C8_Witness ==
    /\ last.op = "ct_eq"
    /\ last.ret = 1
    /\ acc.Z % P # rhs.Z % P
    /\ AffineX(acc) # 0

\* C9 as stated: P == Q is computed by compressing both points and
\* comparing the encodings.
C9_AsStated == last.op = "eq" => last.calls = <<"compress", "compress">>

\* C9, amended: P == Q is computed by ct_eq(P, Q), with no compression; on
\* valid points its value is that of comparing compress(P) and compress(Q).
C9_EqIsCtEq ==
    last.op = "eq" =>
        /\ last.calls = <<"ct_eq">>
        /\ last.ret = (ct_eq(acc, rhs) = 1)
        /\ \A a \in {compress(acc)} : \A b \in {compress(rhs)} : last.ret = (a = b)

\* == has held between two different representations of one point
C9_Witness ==
    /\ last.op = "eq"
    /\ last.ret
    /\ acc # rhs
    /\ AffineX(acc) # 0

\* C10: a call of multiscalar_mul that passes the entry checks invokes
\* Straus once, for every batch size n; one of optional_multiscalar_mul
\* invokes Straus once when n < 190 and Pippenger once when n >= 190.
C10_Dispatch ==
    last.op \in {"multiscalar_mul", "optional_multiscalar_mul"} /\ ~last.panicked =>
        /\ Len(last.calls) = 1
        /\ last.op = "multiscalar_mul" => last.calls[1] = "straus"
        /\ last.op = "optional_multiscalar_mul" =>
              /\ (last.calls[1] = "straus") = (last.scalars.lo < 190)
              /\ (last.calls[1] = "pippenger") = (last.scalars.lo >= 190)

\* a batch of 190 has gone to Pippenger
C10_Witness ==
    /\ last.op = "optional_multiscalar_mul"
    /\ ~last.panicked
    /\ last.scalars.lo = 190
    /\ last.calls = <<"pippenger">>

\* C11: when the number of scalars differs from the number of points,
\* multiscalar_mul and optional_multiscalar_mul stop on a failed assertion:
\* no backend is invoked and no point is returned.
C11_LengthMismatch ==
    /\ last.op \in {"multiscalar_mul", "optional_multiscalar_mul"}
    /\ last.scalars.len # last.points.len
    => /\ last.panicked
       /\ last.calls = <<>>
       /\ ~last.returned

\* one point more than scalars behind equal lower bounds has been refused
C11_Witness ==
    /\ last.op = "optional_multiscalar_mul"
    /\ last.scalars.len + 1 = last.points.len
    /\ last.scalars.lo = last.points.lo
    /\ last.scalars.hi = last.scalars.lo
    /\ last.panicked

\* sum of the variable-base products scalars[j] * points[j], j = lo .. hi,
\* added to total in the order of the batch
RECURSIVE SumOfProducts(_, _, _, _, _)
SumOfProducts(ss, ps, total, lo, hi) ==
    IF lo > hi THEN total
    ELSE IF lo = hi
    THEN CHOOSE r \in {add(total, m) : m \in {mul(ps[lo], ss[lo])}} : TRUE
    ELSE CHOOSE r \in {SumOfProducts(ss, ps, t, ((lo + hi) \div 2) + 1, hi) :
                          t \in {SumOfProducts(ss, ps, total, lo, (lo + hi) \div 2)}} : TRUE

\* C12: on a batch of n scalars and n valid points, below and at the
\* threshold of 190, multiscalar_mul and vartime_multiscalar_mul return the
\* same point, the sum of the variable-base products s_i * P_i.
C12_MultiscalarConsistency ==
    /\ last.op \in {"multiscalar_mul", "vartime_multiscalar_mul"}
    /\ last.returned
    => /\ ValidPoint(last.ret)
       /\ \A ct \in {multiscalar_mul(scalars, points)} : ct_eq(last.ret, ct) = 1
       /\ \A vt \in {vartime_multiscalar_mul(scalars, points)} : ct_eq(last.ret, vt) = 1
       /\ \A nv \in {SumOfProducts(scalars, points, identity, 1, Len(points))} :
             ct_eq(last.ret, nv) = 1 /\ SamePoint(last.ret, nv)

\* a batch of 190 has been summed by the variable-time entry point
C12_Witness ==
    /\ last.op = "vartime_multiscalar_mul"
    /\ last.returned
    /\ Len(scalars) = 190
    /\ last.calls = <<"pippenger">>
    /\ ~is_identity(last.ret)

\* the points a table of SpecTable can have been created from
TableBases ==
    {ED25519_BASEPOINT_POINT, identity}
        \cup {unwrap(decompress(s)) : s \in TableInputs}

\* the table is the one create(B) returns; the first conjunct only spares the
\* construction of the tables of the other points
IsTableOf(tables, B) == SamePoint(basepoint(tables), B) /\ tables = create(B)

\* C13: a table created from B times s is the point B * s, and the two operand
\* orders of a multiplication (table * s and s * table, P * s and s * P) return
\* the same point
C13_FixedBaseIsVariableBase ==
    [][/\ last'.op \in {"basepoint_mul", "scalar_mul_table"}
          => \A B \in TableBases :
                 IsTableOf(table, B) =>
                     \A vb \in {mul(B, last'.scalar)} :
                         ct_eq(acc', vb) = 1 /\ SamePoint(acc', vb)
       /\ last'.op = "basepoint_mul" => acc' = scalar_mul_table(last'.scalar, table)
       /\ last'.op = "scalar_mul_table" => acc' = table_mul(table, last'.scalar)
       /\ last'.op = "mul" => acc' = scalar_mul_point(last'.scalar, acc)
       /\ last'.op = "scalar_mul" => acc' = mul(acc, last'.scalar)]_vars

C13_Witness ==
    /\ last.op = "scalar_mul_table"
    /\ last.scalar = 300
    /\ IsTableOf(table, unwrap(decompress(74)))
    /\ table # ED25519_BASEPOINT_TABLE
    /\ ~is_identity(acc)

\* the group law on affine points <<x, y>> of the curve -x^2 + y^2 = 1 + d x^2 y^2
AffineAdd(a, b) ==
    LET k == (EDWARDS_D * a[1] * b[1] * a[2] * b[2]) % P
    IN  << ((a[1] * b[2] + a[2] * b[1]) * Inverse((1 + k) % P)) % P,
           ((a[2] * b[2] + a[1] * b[1]) * Inverse((1 + P - k) % P)) % P >>

AffineIdentity == <<0, 1>>

\* [k]a: [k/2]a added to itself, plus a when k is odd
RECURSIVE AffineMul(_, _)
AffineMul(k, a) ==
    IF k = 0 THEN AffineIdentity
    ELSE LET twice(h) == IF k % 2 = 1 THEN AffineAdd(AffineAdd(h, h), a)
                         ELSE AffineAdd(h, h)
         IN  Bind(AffineMul(k \div 2, a), twice)

Affine(p) == <<AffineX(p), AffineY(p)>>

\* C14: mul_by_cofactor(P) is [8]P, is_small_order(P) says whether [8]P is the
\* identity, is_torsion_free(P) says whether [l]P is the identity, and a torsion
\* point is of small order and is torsion-free only when it is the identity
C14_CofactorPredicates ==
    [][/\ last'.op = "mul_by_cofactor"
          => ValidPoint(acc') /\ Affine(acc') = AffineMul(8, Affine(acc))
       /\ last'.op = "is_small_order"
          => /\ last'.ret <=> (AffineMul(8, Affine(acc)) = AffineIdentity)
             /\ acc' = acc
       /\ last'.op = "is_torsion_free"
          => /\ last'.ret <=> (AffineMul(BASEPOINT_ORDER, Affine(acc)) = AffineIdentity)
             /\ acc' = acc
       /\ /\ last'.op \in {"is_small_order", "is_torsion_free"}
          /\ AffineMul(8, Affine(acc)) = AffineIdentity
          => /\ is_small_order(acc)
             /\ is_torsion_free(acc) <=> (Affine(acc) = AffineIdentity)]_vars

C14_Witness ==
    /\ last.op = "is_torsion_free"
    /\ ~last.ret
    /\ is_small_order(acc)
    /\ AffineMul(4, Affine(acc)) # AffineIdentity

\* (1 + y)/(1 - y) in Fp for y # 1
MontgomeryU(y) == ((1 + y) * Inverse((1 + P - y) % P)) % P

\* C15: to_montgomery returns the canonical bytes of u = (Z+Y)/(Z-Y): zero for
\* every representation of the identity (Y = Z), and (1+y)/(1-y) of the affine y
\* for every other valid point
C15_ToMontgomery ==
    last.op = "to_montgomery"
    => /\ last.ret \in Fp
       /\ acc.Y % P = acc.Z % P => last.ret = 0
       /\ acc.Y % P # acc.Z % P =>
              last.ret = (((acc.Z + acc.Y) % P) * Inverse((acc.Z + P - (acc.Y % P)) % P)) % P
       /\ ValidPoint(acc) /\ AffineY(acc) # 1 => last.ret = MontgomeryU(AffineY(acc))
       /\ ValidPoint(acc) /\ AffineY(acc) = 1 => last.ret = 0

C15_Witness ==
    /\ last.op = "to_montgomery"
    /\ ValidPoint(acc)
    /\ acc.Z % P # 1
    /\ acc.Y % P = acc.Z % P
    /\ last.ret = 0

\* a point other than the identity, not in normal form, has been converted
C15_WitnessOther ==
    /\ last.op = "to_montgomery"
    /\ ValidPoint(acc)
    /\ acc.Z % P # 1
    /\ AffineY(acc) # 1
    /\ last.ret # 0

C17_FromBytes ==
    last.op = "from_bytes"
    => /\ buf = last.bytes
       /\ fe = from_bytes(FlipSign(buf))
       /\ fe = from_bytes(buf % TwoToBits)
       /\ fe = buf % TwoToBits
       /\ to_bytes(fe) = (buf % TwoToBits) % P
       /\ buf % TwoToBits = P + 1 => fe_ct_eq(fe, one) = 1 /\ fe # one

\* the encoding of p + 1 with bit 255 set has been decoded
C17_Witness ==
    /\ last.op = "from_bytes"
    /\ buf = TwoToBits + P + 1
    /\ to_bytes(fe) = 1

\* the integers the limbs of a field element may encode: up to two carries above
\* 2^255
FieldReps == 0 .. (TwoToBits + 2 * FieldC)

\* C18: to_bytes returns the representative below p, with bit 255 clear, of the
\* value of the field element; every representation of the same value gives the
\* same bytes; decoding the bytes gives the value back and encoding again gives
\* the same bytes
C18_ToBytesCanonical ==
    last.op = "to_bytes"
    => /\ fe \in FieldReps
       /\ buf \in Fp
       /\ \E k \in 0 .. 1 : fe = buf + k * P
       /\ \A other \in FieldReps :
              (\E k \in 0 .. 1 : other = fe + k * P \/ fe = other + k * P)
              => to_bytes(other) = buf
       /\ \E k \in 0 .. 1 : fe = from_bytes(buf) + k * P
       /\ to_bytes(from_bytes(buf)) = buf

\* an element whose limbs encode more than 2^255 has been encoded
C18_Witness ==
    /\ last.op = "to_bytes"
    /\ fe > TwoToBits
    /\ buf = fe - P

\* every limb of r is the limb of a at the same place
SameLimbs(r, a) == \A i \in 1 .. 2 : limbs(r)[i] = limbs(a)[i]

\* C19: conditional_select returns a for choice 0 and b for choice 1,
\* conditional_assign leaves self for 0 and sets it to rhs for 1, conditional_swap
\* leaves both for 0 and exchanges them for 1, each on all limbs at once; a point
\* is selected coordinate by coordinate in the same way
C19_ConditionalOperations ==
    [][/\ last'.op \in {"fe_conditional_select", "fe_conditional_assign"}
          => /\ fe' = IF last'.choice = 0 THEN fe ELSE fe_rhs
             /\ SameLimbs(fe', IF last'.choice = 0 THEN fe ELSE fe_rhs)
             /\ fe_rhs' = fe_rhs
       /\ last'.op = "fe_conditional_swap"
          => /\ fe' = IF last'.choice = 0 THEN fe ELSE fe_rhs
             /\ fe_rhs' = IF last'.choice = 0 THEN fe_rhs ELSE fe
             /\ SameLimbs(fe', IF last'.choice = 0 THEN fe ELSE fe_rhs)
             /\ SameLimbs(fe_rhs', IF last'.choice = 0 THEN fe_rhs ELSE fe)
       /\ last'.op = "conditional_select"
          => /\ acc' = IF last'.choice = 0 THEN acc ELSE rhs
             /\ rhs' = rhs]_vars

\* two elements that differ in both limbs have been exchanged
C19_Witness ==
    /\ last.op = "fe_conditional_swap"
    /\ last.choice = 1
    /\ \A i \in 1 .. 2 : limbs(fe)[i] # limbs(fe_rhs)[i]
    /\ fe = P + 1

C21_BasepointOfTable ==
    /\ last.op = "basepoint"
       => /\ acc = completed_to_extended(
                       add_affine_niels(identity, select_affine_niels(table[1], 1)))
          /\ \A B \in TableBases :
                table = create(B) => ct_eq(acc, B) = 1 /\ SamePoint(acc, B)
    /\ (last.op \in {"basepoint_mul", "scalar_mul_table"} /\ last.scalar = 1)
       => /\ ct_eq(acc, basepoint(table)) = 1
          /\ \A B \in TableBases :
                table = create(B) => ct_eq(acc, B) = 1 /\ SamePoint(acc, B)

\* basepoint() has returned the point of order 56 a table was created from
C21_Witness ==
    /\ last.op = "basepoint"
    /\ table = create(unwrap(decompress(74)))
    /\ compress(acc) = 74

\* the table of the point of order 8 has been multiplied by one
C21_WitnessOne ==
    /\ last.op = "scalar_mul_table"
    /\ last.scalar = 1
    /\ compress(acc) = 16

\* C23: mul_by_pow_2(k) does k doublings and returns [2^k]P, double() is P + P,
\* and mul_by_cofactor is mul_by_pow_2(3)
C23_RepeatedDoubling ==
    [][/\ last'.op = "mul_by_pow_2"
          => /\ last'.doublings = last'.k
             /\ ValidPoint(acc')
             /\ Affine(acc') = AffineMul(2 ^ last'.k, Affine(acc))
       /\ last'.op = "double"
          => /\ \A s \in {add(acc, acc)} : ct_eq(acc', s) = 1 /\ SamePoint(acc', s)
             /\ Affine(acc') = AffineMul(2, Affine(acc))
             /\ acc' = mul_by_pow_2(acc, 1)
       /\ last'.op = "mul_by_cofactor"
          => /\ acc' = mul_by_pow_2(acc, 3)
             /\ mul_by_pow_2_run(acc, 3).doublings = 3]_vars

\* a point of order 56 has been doubled four times
C23_Witness ==
    /\ last.op = "mul_by_pow_2"
    /\ last.k = 4
    /\ last.doublings = 4
    /\ Affine(acc) = AffineMul(16, Affine(rhs))
    /\ AffineMul(7, Affine(acc)) = AffineIdentity
    /\ Affine(acc) # AffineIdentity

AffineNeg(a) == <<(P - a[1]) % P, a[2]>>

\* [d]a for a digit or a multiple of a digit, which may be negative
AffineMulSigned(d, a) == IF d < 0 THEN AffineNeg(AffineMul(-d, a)) ELSE AffineMul(d, a)

\* sum over i of [a_i 16^i]B for the digits a (indexed from 1), from digit i on
RECURSIVE DigitSum(_, _, _)
DigitSum(a, B, i) ==
    IF i >= Len(a) THEN AffineIdentity
    ELSE LET plus(rest) == AffineAdd(AffineMulSigned(a[i + 1] * (16 ^ i), B), rest)
         IN  Bind(DigitSum(a, B, i + 1), plus)

\* the AffineNiels point n is (y + x, y - x, 2dxy) of the affine point a
IsNielsOf(n, a) ==
    /\ n.y_plus_x % P = (a[2] + a[1]) % P
    /\ n.y_minus_x % P = (a[2] + P - a[1]) % P
    /\ n.xy2d % P = (2 * EDWARDS_D * a[1] * a[2]) % P

\* what basepoint_mul does for every scalar: the odd digits in increasing order,
\* four doublings, the even digits in increasing order
CombTrace ==
    [n \in 1 .. (NumDigits + 1) |->
        IF n <= NumTables THEN <<"select_add", 2 * n - 1, n - 1>>
        ELSE IF n = NumTables + 1 THEN <<"mul_by_pow_2", 4>>
        ELSE <<"select_add", 2 * (n - NumTables - 2), n - NumTables - 2>>]

\* C22: create(B) builds for k = 0 .. 31 the lookup table of (16^2)^k B, and
\* basepoint_mul adds the entries selected by the odd digits, multiplies by 16,
\* adds the entries selected by the even digits, uses every digit once and only
\* table indices in range, and returns the sum over i of a_i 16^i B
C22_FixedBaseComb ==
    /\ last.op = "create"
       => /\ Len(table) = NumTables
          /\ \A k \in 0 .. (NumTables - 1) : \A j \in 1 .. 8 :
                IsNielsOf(table[k + 1][j], AffineMul(j * (256 ^ k), Affine(rhs)))
    /\ last.op = "basepoint_mul"
       => /\ last.trace = CombTrace
          /\ \A i \in 0 .. (NumDigits - 1) :
                Cardinality({n \in DOMAIN last.trace :
                                /\ last.trace[n][1] = "select_add"
                                /\ last.trace[n][2] = i}) = 1
          /\ \A n \in DOMAIN last.trace :
                last.trace[n][1] = "select_add"
                => /\ last.trace[n][3] \in 0 .. (NumTables - 1)
                   /\ last.trace[n][3] = last.trace[n][2] \div 2
          /\ ValidPoint(acc)
          /\ \A B \in TableBases :
                IsTableOf(table, B)
                => Affine(acc) = DigitSum(to_radix_16(last.scalar), Affine(B), 0)

\* a table of a point of order 56 has been multiplied by a scalar with a
\* negative digit
C22_Witness ==
    /\ last.op = "basepoint_mul"
    /\ last.scalar = 300
    /\ to_radix_16(last.scalar)[1] < 0
    /\ IsTableOf(table, unwrap(decompress(74)))
    /\ Affine(acc) = AffineMul(300, Affine(unwrap(decompress(74))))

\* a^e mod p by e multiplications
RECURSIVE PowMod(_, _)
PowMod(a, e) == IF e = 0 THEN 1 ELSE ((a % P) * PowMod(a, e - 1)) % P

\* C24: pow2k(a, k) squares k times and returns a^(2^k), a is left as it was, and
\* square(a) is pow2k(a, 1)
C24_Pow2k ==
    [][/\ last'.op = "pow2k"
          => /\ last'.squarings = last'.k
             /\ last'.ret % P = PowMod(fe, 2 ^ last'.k)
             /\ last'.ret = pow2k(fe, last'.k)
             /\ fe' = fe
       /\ last'.op = "square"
          => /\ last'.ret = pow2k(fe, 1)
             /\ last'.ret % P = PowMod(fe, 2)
             /\ fe' = fe]_vars

\* a loose representation of 5 has been raised to the power 2^3
C24_Witness ==
    /\ last.op = "pow2k"
    /\ last.k = 3
    /\ last.squarings = 3
    /\ fe = TwoToBits + 2
    /\ last.ret % P = PowMod(5, 8)
    /\ last.ret % P # 1

\* every exact limb value fits a u64: none is below zero, none wraps around
InU64(wide) == \A i \in DOMAIN wide : wide[i] >= 0 /\ wide[i] < WordModulus

\* every limb is at most the matching limb of 2p
WithinTwoP(a) == \A i \in DOMAIN a : a[i] <= two_p[i]

\* the largest limb one carry pass leaves of limbs that fit a u64
CarriedBound == LimbBase + FieldC

\* the exact limb values fit, the limbs returned are carried and encode v mod p
CarriedTo(r, v) ==
    /\ InU64(r.wide)
    /\ \A i \in DOMAIN r.out : r.out[i] <= CarriedBound
    /\ from_limbs(r.out) % P = v % P

C26_WitnessNeg ==
    /\ last.op = "neg_limbs"
    /\ fe = <<1, LimbBase>>
    /\ InU64(last.wide)
    /\ from_limbs(last.out) = P - FieldC - 1

\* every exact sum of products fits a u128, twice the width of a u64
InU128(products) ==
    \A i \in DOMAIN products :
        products[i] >= 0 /\ (products[i] \div WordModulus) < WordModulus

TraceKind(trace, kind) == {n \in DOMAIN trace : trace[n][1] = kind}

\* C27: fixed-base multiplication performs the same operations whatever the
\* scalar (a select-and-add for each odd digit, a multiplication by 2^4 of four
\* doublings, a select-and-add for each even digit, with the same table indices),
\* and multiscalar_mul hands every batch to Straus
C27_ConstantTimeShape ==
    /\ last.op = "basepoint_mul"
       => /\ \A other \in CombScalars :
                basepoint_mul_run(table, other).trace = last.trace
          /\ \E m \in DOMAIN last.trace :
                /\ last.trace[m] = <<"mul_by_pow_2", 4>>
                /\ TraceKind(last.trace, "mul_by_pow_2") = {m}
                /\ Cardinality({n \in TraceKind(last.trace, "select_add") : n < m})
                       = NumDigits \div 2
                /\ Cardinality({n \in TraceKind(last.trace, "select_add") : n > m})
                       = NumDigits \div 2
          /\ mul_by_pow_2_run(acc, 4).doublings = 4
    /\ (last.op = "multiscalar_mul" /\ ~last.panicked)
       => /\ last.calls = <<"straus">>
          /\ \A n \in 0 .. MaxPush : multiscalar_mul_backend(n) = "straus"

\* the scalar zero, all of whose digits are zero, took the whole sequence
C27_Witness ==
    /\ last.op = "basepoint_mul"
    /\ last.scalar = 0
    /\ Len(last.trace) = NumDigits + 1
    /\ basepoint_mul_run(table, LargestScalar).trace = last.trace
    /\ is_identity(acc)

\* a batch of two different scalars went to Straus
C27_WitnessBatch ==
    /\ last.op = "multiscalar_mul"
    /\ ~last.panicked
    /\ Len(scalars) = 2
    /\ scalars[1] # scalars[2]
    /\ last.calls = <<"straus">>

\* ((acc + items[i]) + items[i + 1]) + ..., from the left
RECURSIVE FoldLeft(_, _, _)
FoldLeft(items, start, i) ==
    IF i > Len(items) THEN start
    ELSE LET next(r) == FoldLeft(items, r, i + 1)
         IN  Bind(add(start, items[i]), next)

\* the sum of the affine points of the items by the group law
RECURSIVE AffineSum(_, _)
AffineSum(items, i) ==
    IF i > Len(items) THEN AffineIdentity
    ELSE AffineAdd(Affine(items[i]), AffineSum(items, i + 1))

\* C28: the sum of an iterator of points is the left fold of addition from the
\* identity, the identity itself for an empty iterator, for borrowed and for
\* owned items alike
C28_SumIsLeftFold ==
    [][last'.op = "sum"
       => /\ acc' = FoldLeft(points, identity, 1)
          /\ points = <<>> => acc' = identity
          /\ Len(points) = 2 => acc' = add(add(identity, points[1]), points[2])
          /\ ValidPoint(acc')
          /\ Affine(acc') = AffineSum(points, 1)
          /\ points' = IF last'.owned THEN <<>> ELSE points]_vars

\* two different points, neither the identity, have been summed from a borrowed Vec
C28_Witness ==
    /\ last.op = "sum"
    /\ ~last.owned
    /\ Len(points) = 2
    /\ points[1] # points[2]
    /\ ~is_identity(points[1])
    /\ ~is_identity(points[2])
    /\ acc = add(add(identity, points[1]), points[2])
    /\ acc # add(points[1], points[2])

\* an owned Vec has been summed to a point other than the identity
C28_WitnessOwned ==
    /\ last.op = "sum"
    /\ last.owned
    /\ points = <<>>
    /\ ~is_identity(acc)

\* the size hint is exact: the upper bound is Some(lower bound)
ExactHint(hint) == hint.hi # NoUpper /\ hint.hi = hint.lo

\* C29: multiscalar_mul and optional_multiscalar_mul stop on a failed assertion
\* unless both size hints are exact and their lower bounds are equal, also when
\* the two sequences have the same length; a backend is invoked only when the
\* three assertions pass
C29_SizeHintChecks ==
    last.op \in {"multiscalar_mul", "optional_multiscalar_mul"}
    => /\ last.panicked
          = ~(/\ ExactHint(last.scalars)
              /\ ExactHint(last.points)
              /\ last.scalars.lo = last.points.lo)
       /\ (/\ last.scalars.len = last.points.len
           /\ ~(ExactHint(last.scalars) /\ ExactHint(last.points)))
          => last.panicked
       /\ last.panicked => last.calls = <<>> /\ ~last.returned
       /\ last.calls # <<>>
          => /\ last.scalars.lo = last.points.lo
             /\ last.scalars.hi = last.scalars.lo
             /\ last.points.hi = last.points.lo
             /\ Len(last.calls) = 1

\* as many points as scalars, the scalars with an exact size hint, the points
\* with no upper bound: refused
C29_Witness ==
    /\ last.op = "multiscalar_mul"
    /\ last.scalars.len = 2
    /\ last.points.len = 2
    /\ ExactHint(last.scalars)
    /\ last.points.lo = 2
    /\ last.points.hi = NoUpper
    /\ last.panicked
    /\ last.calls = <<>>

====
